---------------------------- MODULE Spec2Model ----------------------------
(***************************************************************************)
(* A model of libzmq-rs' typed socket layer (libzmq/src/socket.rs and      *)
(* libzmq/src/socket/client.rs): the per-call translation of the engine's  *)
(* error codes, the option setters and getters, and the configuration      *)
(* builders.  The messaging engine itself is an external collaborator; it  *)
(* is modelled as a deterministic function of its own state (the zmq_*     *)
(* operators below), the wrappers over it are translated from the source.  *)
(***************************************************************************)
EXTENDS Integers, Sequences, FiniteSets, TLC

VARIABLES
    sock,        \* the native sockets: engine state of every socket slot
    terminated,  \* the contexts on which Ctx::terminate() was called
    pending,     \* per thread: the blocking engine call it is suspended in
    cfg,         \* the configuration value being assembled / applied
    phase,       \* "config" while the configuration is assembled, "live" after
    last,        \* the most recent step: operation, arguments, returned value
    calls        \* the engine calls the most recent operation made, in order

vars == <<sock, terminated, pending, cfg, phase, last, calls>>

\* Option<T>: None, Some(v)
None == <<>>
Some(v) == <<v>>
IsSome(o) == o # <<>>
Unwrap(o) == o[1]

\* no socket, no role, no context, no routing id, no error code
Nil == "nil"

----------------------------------------------------------------------------
(* Bounds of the model.                                                    *)

\* the most messages one direction of a socket queues (its high water mark)
MaxQueue == 1
Socks == {"s1"}
Ctxs == {"c1"}
Threads == {"t1"}
Roles == {"Client", "Server", "Radio", "Dish"}
Endpoints == {"e1", "e2"}
Payloads == {"p1", "p2"}
RoutingIds == {"r1"}
Groups == {"g1", "g2"}

\* const MAX_HB_TTL: i64 = 6_553_599;
MAX_HB_TTL == 6553599

\* "The group `str` must be at most 15 characters."
ZMQ_GROUP_MAX_LENGTH == 15

----------------------------------------------------------------------------
(* The error envelope: Error<T> { inner: kind, content: Option<T> }.       *)

ErrorKinds ==
    {"WouldBlock", "HostUnreachable", "CtxTerminated", "Interrupted",
     "AddrInUse", "AddrNotAvailable", "NotFound", "SocketLimit",
     "InvalidInput"}

\* an ErrorKind value; NotFound and InvalidInput carry a message
Kind(tag) == [tag |-> tag, msg |-> ""]
KindMsg(tag, msg) == [tag |-> tag, msg |-> msg]

\* a variant of Error::new that hands back an empty message as content
Error_new_content(kind) ==
    [kind |-> kind, content |-> Some([data |-> "", routing_id |-> "nil", group |-> "nil"])]

\* Error::new(kind): no content
Error_new(kind) == [kind |-> kind, content |-> None]

\* Error::with_content(kind, content)
Error_with_content(kind, content) == [kind |-> kind, content |-> Some(content)]

\* Ok(()), Ok(value) and the fatal path (panic!) of a call, in the same shape
Ok == [kind |-> Kind("Ok"), content |-> None]
Panic == [kind |-> Kind("panic"), content |-> None]

IsOk(r) == r.kind.tag = "Ok"
IsErr(r) == r.kind.tag \in ErrorKinds
IsPanic(r) == r.kind.tag = "panic"

----------------------------------------------------------------------------
(* Messages.  A Msg owns a payload and, on a Server, a routing id; on a    *)
(* Radio / Dish, a group.                                                  *)

Msgs == [data : Payloads, routing_id : RoutingIds \cup {Nil}, group : {Nil}]

\* impl From<payload> for Msg: a fresh message that owns the payload
Msg_from(p) == [data |-> p, routing_id |-> Nil, group |-> Nil]

\* Msg::new(): the empty message a receive call fills
Msg_new == [data |-> "", routing_id |-> Nil, group |-> Nil]

----------------------------------------------------------------------------
(* The engine: one native socket's state, and the native call surface.    *)
(* Every zmq_* operator answers [rc, errno, S, ...]: the return code, the *)
(* error code when rc = -1, and the socket's state after the call.        *)

OptNames ==
    {"backlog", "connect_timeout", "heartbeat_interval", "heartbeat_timeout",
     "heartbeat_ttl", "send_hwm", "recv_hwm", "no_drop"}

\* the engine's default option values (milliseconds for the durations)
DefaultOpts ==
    [backlog |-> 100, connect_timeout |-> 0, heartbeat_interval |-> 0,
     heartbeat_timeout |-> -1, heartbeat_ttl |-> 0, send_hwm |-> 1000,
     recv_hwm |-> 1000, no_drop |-> 0]

\* a socket slot no native socket was opened in
NoSocket ==
    [state |-> "none", role |-> Nil, ctx |-> Nil, connected |-> {},
     bound |-> {}, peers |-> {}, groups |-> {}, opt |-> DefaultOpts,
     inq |-> <<>>, outq |-> <<>>]

\* what zmq_socket hands back: a fresh open socket of the role on the context
FreshSocket(role, ctx) ==
    [NoSocket EXCEPT !.state = "open", !.role = role, !.ctx = ctx]

RcOk(S) == [rc |-> 0, errno |-> Nil, S |-> S, blocks |-> FALSE]
RcErr(S, errno) == [rc |-> -1, errno |-> errno, S |-> S, blocks |-> FALSE]
RcBlock(S) == [rc |-> 0, errno |-> Nil, S |-> S, blocks |-> TRUE]

\* zmq_connect: the endpoint joins the socket's connected endpoints
zmq_connect(S, env, e) ==
    IF env.term THEN RcErr(S, "ETERM")
    ELSE RcOk([S EXCEPT !.connected = @ \cup {e}])

\* zmq_bind: an address serves one binding at a time
zmq_bind(S, env, e) ==
    IF env.term THEN RcErr(S, "ETERM")
    ELSE IF e \in env.inuse \cup S.bound THEN RcErr(S, "EADDRINUSE")
    ELSE RcOk([S EXCEPT !.bound = @ \cup {e}])

\* zmq_disconnect
zmq_disconnect(S, env, e) ==
    IF env.term THEN RcErr(S, "ETERM")
    ELSE IF e \notin S.connected THEN RcErr(S, "ENOENT")
    ELSE RcOk([S EXCEPT !.connected = @ \ {e}])

\* zmq_unbind
zmq_unbind(S, env, e) ==
    IF env.term THEN RcErr(S, "ETERM")
    ELSE IF e \notin S.bound THEN RcErr(S, "ENOENT")
    ELSE RcOk([S EXCEPT !.bound = @ \ {e}, !.peers = {}])

\* the socket cannot take another outbound message: its queue is at the
\* high water mark, or it has no peer to queue for
Mute(S) ==
    \/ Len(S.outq) >= MaxQueue
    \/ S.role = "Client" /\ S.connected = {} /\ S.peers = {}

\* zmq_msg_send.  A terminated context fails every call; a Server routes by
\* the message's routing id; a Radio queues a message only for the groups
\* its subscribers have joined (S.groups of a Radio) and drops the others;
\* in mute state a Radio drops (unless no_drop), a non-blocking call fails
\* with EAGAIN, a blocking call waits, and a signal delivered while it waits
\* interrupts it.
zmq_msg_send(S, env, msg, no_block) ==
    IF env.term THEN RcErr(S, "ETERM")
    ELSE IF S.role = "Dish" THEN RcErr(S, "ENOTSUP")
    ELSE IF S.role = "Server" /\ msg.routing_id \notin S.peers
    THEN RcErr(S, "EHOSTUNREACH")
    ELSE IF S.role = "Radio" /\ msg.group \notin S.groups THEN RcOk(S)
    ELSE IF ~Mute(S) THEN RcOk([S EXCEPT !.outq = Append(@, msg)])
    ELSE IF S.role = "Radio" /\ S.opt.no_drop = 0 THEN RcOk(S)
    ELSE IF no_block THEN RcErr(S, "EAGAIN")
    ELSE IF env.sig THEN RcErr(S, "EINTR")
    ELSE RcBlock(S)

\* zmq_msg_recv: the head of the inbound queue, with the same waiting rules
zmq_msg_recv(S, env, no_block) ==
    IF env.term THEN RcErr(S, "ETERM") @@ [msg |-> Msg_new]
    ELSE IF S.role = "Radio" THEN RcErr(S, "ENOTSUP") @@ [msg |-> Msg_new]
    ELSE IF S.inq # <<>>
    THEN RcOk([S EXCEPT !.inq = Tail(@)]) @@ [msg |-> Head(S.inq)]
    ELSE IF no_block THEN RcErr(S, "EAGAIN") @@ [msg |-> Msg_new]
    ELSE IF env.sig THEN RcErr(S, "EINTR") @@ [msg |-> Msg_new]
    ELSE RcBlock(S) @@ [msg |-> Msg_new]

\* the values the engine accepts for an option
ValidOpt(opt, v) ==
    CASE opt = "heartbeat_ttl" -> v >= -1 /\ v <= MAX_HB_TTL
      [] opt = "no_drop" -> v \in {0, 1}
      [] opt = "backlog" -> v >= 0
      [] OTHER -> v >= -1

\* zmq_setsockopt
zmq_setsockopt(S, env, opt, v) ==
    IF env.term THEN RcErr(S, "ETERM")
    ELSE IF ~ValidOpt(opt, v) THEN RcErr(S, "EINVAL")
    ELSE RcOk([S EXCEPT !.opt[opt] = v])

\* zmq_getsockopt
zmq_getsockopt(S, env, opt) ==
    IF env.term THEN RcErr(S, "ETERM") @@ [value |-> 0]
    ELSE RcOk(S) @@ [value |-> S.opt[opt]]

\* zmq_join: a group is joined at most once
zmq_join(S, env, g) ==
    IF env.term THEN RcErr(S, "ETERM")
    ELSE IF Len(g) > ZMQ_GROUP_MAX_LENGTH \/ g \in S.groups
         THEN RcErr(S, "EINVAL")
    ELSE RcOk([S EXCEPT !.groups = @ \cup {g}])

\* zmq_leave: only a joined group can be left
zmq_leave(S, env, g) ==
    IF env.term THEN RcErr(S, "ETERM")
    ELSE IF g \notin S.groups THEN RcErr(S, "EINVAL")
    ELSE RcOk([S EXCEPT !.groups = @ \ {g}])

\* zmq_socket: a null handle on a terminated context or a full socket table
zmq_socket(env, role, ctx) ==
    IF env.term THEN RcErr(NoSocket, "ETERM")
    ELSE IF env.full THEN RcErr(NoSocket, "EMFILE")
    ELSE RcOk(FreshSocket(role, ctx))

\* zmq_close
zmq_close(S) == RcOk([NoSocket EXCEPT !.state = "closed"])

----------------------------------------------------------------------------
(* The wrappers of socket.rs.  Each answers [S, res, calls]: the socket    *)
(* after the call, the Result handed to the caller, and the engine calls   *)
(* made, in order.                                                         *)

\* the flags argument of zmq_msg_send / zmq_msg_recv: ZMQ_DONTWAIT or 0
Flags(no_block) == IF no_block THEN 1 ELSE 0

Call(fn, arg, val) == [fn |-> fn, arg |-> arg, val |-> val]
Out(S, res, cs) == [S |-> S, res |-> res, calls |-> cs]

\* a variant of the match in connect that takes ETERM for an interruption
connect_errno_eterm(errno) ==
    IF errno = "ETERM" THEN [kind |-> Kind("Interrupted"), content |-> None]
    ELSE Panic

\* the match on zmq_errno() in fn connect
connect_errno(errno) ==
    CASE errno = "EINVAL" ->
           Error_new(KindMsg("InvalidInput", "invalid endpoint"))
      [] errno = "EPROTONOSUPPORT" ->
           Error_new(KindMsg("InvalidInput", "endpoint protocol not supported"))
      [] errno = "ENOCOMPATPROTO" ->
           Error_new(KindMsg("InvalidInput", "endpoint protocol incompatible"))
      [] errno = "ETERM" -> Error_new(Kind("CtxTerminated"))
      [] errno = "ENOTSOCK" -> Panic
      [] errno = "EMTHREAD" -> Panic
      [] OTHER -> Panic

\* fn connect(mut_sock_ptr, c_str)
connect(S, env, e) ==
    LET r == zmq_connect(S, env, e) IN
    Out(r.S, IF r.rc = -1 THEN connect_errno(r.errno) ELSE Ok,
        <<Call("zmq_connect", e, 0)>>)

\* a variant of the match in fn bind that has no arm for ENODEV
bind_errno_nodev(errno) ==
    CASE errno = "EINVAL" ->
           Error_new(KindMsg("InvalidInput", "invalid endpoint"))
      [] errno = "EPROTONOSUPPORT" ->
           Error_new(KindMsg("InvalidInput", "endpoint protocol not supported"))
      [] errno = "ENOCOMPATPROTO" ->
           Error_new(KindMsg("InvalidInput", "endpoint protocol incompatible"))
      [] errno = "EADDRINUSE" -> Error_new(Kind("AddrInUse"))
      [] errno = "EADDRNOTAVAIL" -> Error_new(Kind("AddrNotAvailable"))
      [] errno = "ETERM" -> Error_new(Kind("CtxTerminated"))
      [] OTHER -> Panic

\* the match on zmq_errno() in fn bind
bind_errno(errno) ==
    CASE errno = "EINVAL" ->
           Error_new(KindMsg("InvalidInput", "invalid endpoint"))
      [] errno = "EPROTONOSUPPORT" ->
           Error_new(KindMsg("InvalidInput", "endpoint protocol not supported"))
      [] errno = "ENOCOMPATPROTO" ->
           Error_new(KindMsg("InvalidInput", "endpoint protocol incompatible"))
      [] errno = "EADDRINUSE" -> Error_new(Kind("AddrInUse"))
      [] errno = "EADDRNOTAVAIL" -> Error_new(Kind("AddrNotAvailable"))
      [] errno = "ENODEV" -> Error_new(Kind("AddrNotAvailable"))
      [] errno = "ETERM" -> Error_new(Kind("CtxTerminated"))
      [] errno = "ENOTSOCK" -> Panic
      [] errno = "EMTHREAD" -> Panic
      [] OTHER -> Panic

\* fn bind(mut_sock_ptr, c_str)
bind(S, env, e) ==
    LET r == zmq_bind(S, env, e) IN
    Out(r.S, IF r.rc = -1 THEN bind_errno(r.errno) ELSE Ok,
        <<Call("zmq_bind", e, 0)>>)

\* the match on zmq_errno() in fn disconnect
disconnect_errno(errno) ==
    CASE errno = "EINVAL" ->
           Error_new(KindMsg("InvalidInput", "invalid endpoint"))
      [] errno = "ETERM" -> Error_new(Kind("CtxTerminated"))
      [] errno = "ENOTSOCK" -> Panic
      [] errno = "ENOENT" ->
           Error_new(KindMsg("NotFound", "endpoint was not connected to"))
      [] OTHER -> Panic

\* fn disconnect(mut_sock_ptr, c_str)
disconnect(S, env, e) ==
    LET r == zmq_disconnect(S, env, e) IN
    Out(r.S, IF r.rc = -1 THEN disconnect_errno(r.errno) ELSE Ok,
        <<Call("zmq_disconnect", e, 0)>>)

\* a variant of the match in fn unbind that takes ENOENT for an invalid
\* endpoint
unbind_errno_invalid(errno) ==
    CASE errno = "EINVAL" ->
           Error_new(KindMsg("InvalidInput", "invalid endpoint"))
      [] errno = "ETERM" -> Error_new(Kind("CtxTerminated"))
      [] errno = "ENOENT" ->
           Error_new(KindMsg("InvalidInput", "invalid endpoint"))
      [] OTHER -> Panic

\* the match on zmq_errno() in fn unbind
unbind_errno(errno) ==
    CASE errno = "EINVAL" ->
           Error_new(KindMsg("InvalidInput", "invalid endpoint"))
      [] errno = "ETERM" -> Error_new(Kind("CtxTerminated"))
      [] errno = "ENOTSOCK" -> Panic
      [] errno = "ENOENT" ->
           Error_new(KindMsg("NotFound", "endpoint was not bound to"))
      [] OTHER -> Panic

\* fn unbind(mut_sock_ptr, c_str)
unbind(S, env, e) ==
    LET r == zmq_unbind(S, env, e) IN
    Out(r.S, IF r.rc = -1 THEN unbind_errno(r.errno) ELSE Ok,
        <<Call("zmq_unbind", e, 0)>>)

\* a variant of the match in send that drops the message on failure
send_errno_drop(errno, msg) ==
    CASE errno = "EAGAIN" -> [kind |-> Kind("WouldBlock"), content |-> None]
      [] errno = "ETERM" -> [kind |-> Kind("CtxTerminated"), content |-> None]
      [] errno = "EINTR" -> [kind |-> Kind("Interrupted"), content |-> None]
      [] errno = "EHOSTUNREACH" ->
           [kind |-> Kind("HostUnreachable"), content |-> None]
      [] OTHER -> Panic

\* a variant of the match in fn send that takes EHOSTUNREACH for the mute
\* state
send_errno_unroutable(errno, msg) ==
    CASE errno = "EAGAIN" -> Error_with_content(Kind("WouldBlock"), msg)
      [] errno = "ETERM" -> Error_with_content(Kind("CtxTerminated"), msg)
      [] errno = "EINTR" -> Error_with_content(Kind("Interrupted"), msg)
      [] errno = "EHOSTUNREACH" -> Error_with_content(Kind("WouldBlock"), msg)
      [] OTHER -> Panic

\* the match on zmq_errno() in fn send: the recoverable errors hand the
\* message back
send_errno(errno, msg) ==
    CASE errno = "EAGAIN" -> Error_with_content(Kind("WouldBlock"), msg)
      [] errno = "ENOTSUP" -> Panic
      [] errno = "EINVAL" -> Panic
      [] errno = "EFSM" -> Panic
      [] errno = "ETERM" -> Error_with_content(Kind("CtxTerminated"), msg)
      [] errno = "ENOTSOCK" -> Panic
      [] errno = "EINTR" -> Error_with_content(Kind("Interrupted"), msg)
      [] errno = "EFAULT" -> Panic
      [] errno = "EHOSTUNREACH" ->
           Error_with_content(Kind("HostUnreachable"), msg)
      [] OTHER -> Panic

\* a variant of send that reports success without handing the engine's
\* state on: the message is accepted and never queued
send_lost(S, env, msg, no_block) ==
    LET r == zmq_msg_send(S, env, msg, no_block) IN
    Out(S, IF r.rc = -1 THEN send_errno(r.errno, msg) ELSE Ok,
        <<Call("zmq_msg_send", msg.data, Flags(no_block))>>)
      @@ [blocks |-> r.blocks]

\* fn send(mut_sock_ptr, msg, no_block); blocks: the engine has not answered
send(S, env, msg, no_block) ==
    LET r == zmq_msg_send(S, env, msg, no_block) IN
    Out(r.S, IF r.rc = -1 THEN send_errno(r.errno, msg) ELSE Ok,
        <<Call("zmq_msg_send", msg.data, Flags(no_block))>>)
      @@ [blocks |-> r.blocks]

\* a variant of the match in recv that takes ETERM for an interruption
recv_errno_eterm(errno) ==
    CASE errno = "EAGAIN" -> [kind |-> Kind("WouldBlock"), content |-> None]
      [] errno = "ETERM" -> [kind |-> Kind("Interrupted"), content |-> None]
      [] errno = "EINTR" -> [kind |-> Kind("Interrupted"), content |-> None]
      [] OTHER -> Panic

\* the match on zmq_errno() in fn recv
recv_errno(errno) ==
    CASE errno = "EAGAIN" -> Error_new(Kind("WouldBlock"))
      [] errno = "ENOTSUP" -> Panic
      [] errno = "EFSM" -> Panic
      [] errno = "ETERM" -> Error_new(Kind("CtxTerminated"))
      [] errno = "ENOTSOCK" -> Panic
      [] errno = "EINTR" -> Error_new(Kind("Interrupted"))
      [] errno = "EFAULT" -> Panic
      [] OTHER -> Panic

\* a variant of recv that leaves the caller's buffer as it was
recv_stale(S, env, msg, no_block) ==
    LET r == zmq_msg_recv(S, env, no_block) IN
    Out(r.S, IF r.rc = -1 THEN recv_errno(r.errno) ELSE Ok,
        <<Call("zmq_msg_recv", Nil, Flags(no_block))>>)
      @@ [blocks |-> r.blocks, msg |-> msg]

\* a variant of recv whose failed call takes the head of the inbound queue
recv_pop(S, env, msg, no_block) ==
    LET r == zmq_msg_recv(S, env, no_block) IN
    Out(IF r.rc = -1 /\ S.inq # <<>> THEN [S EXCEPT !.inq = Tail(@)] ELSE r.S,
        IF r.rc = -1 THEN recv_errno(r.errno) ELSE Ok,
        <<Call("zmq_msg_recv", Nil, Flags(no_block))>>)
      @@ [blocks |-> r.blocks, msg |-> IF r.rc = -1 THEN msg ELSE r.msg]

\* a variant of recv whose successful call leaves the message in the queue
recv_peek(S, env, msg, no_block) ==
    LET r == zmq_msg_recv(S, env, no_block) IN
    Out(S, IF r.rc = -1 THEN recv_errno(r.errno) ELSE Ok,
        <<Call("zmq_msg_recv", Nil, Flags(no_block))>>)
      @@ [blocks |-> r.blocks, msg |-> IF r.rc = -1 THEN msg ELSE r.msg]

\* fn recv(mut_sock_ptr, msg, no_block): msg is the caller's buffer after
\* the call
recv(S, env, msg, no_block) ==
    LET r == zmq_msg_recv(S, env, no_block) IN
    Out(r.S, IF r.rc = -1 THEN recv_errno(r.errno) ELSE Ok,
        <<Call("zmq_msg_recv", Nil, Flags(no_block))>>)
      @@ [blocks |-> r.blocks, msg |-> IF r.rc = -1 THEN msg ELSE r.msg]

----------------------------------------------------------------------------
(* sockopt: the typed option calls the setters and getters go through.     *)
(* Durations are whole milliseconds; the engine holds -1 for "none".       *)

\* the error translation of an option call: usage errors are fatal
sockopt_errno(errno) ==
    CASE errno = "ETERM" -> Error_new(Kind("CtxTerminated"))
      [] errno = "EINTR" -> Error_new(Kind("Interrupted"))
      [] OTHER -> Panic

\* setsockopt_scalar(mut_sock_ptr, option, value)
setsockopt_scalar(S, env, opt, v) ==
    LET r == zmq_setsockopt(S, env, opt, v) IN
    Out(r.S, IF r.rc = -1 THEN sockopt_errno(r.errno) ELSE Ok,
        <<Call("zmq_setsockopt", opt, v)>>)

\* getsockopt_scalar(mut_sock_ptr, option): value is the Ok value
getsockopt_scalar(S, env, opt) ==
    LET r == zmq_getsockopt(S, env, opt) IN
    Out(S, IF r.rc = -1 THEN sockopt_errno(r.errno) ELSE Ok,
        <<Call("zmq_getsockopt", opt, 0)>>) @@ [value |-> r.value]

\* setsockopt_duration(mut_sock_ptr, option, maybe_duration)
setsockopt_duration(S, env, opt, maybe_duration) ==
    IF IsSome(maybe_duration)
    THEN setsockopt_scalar(S, env, opt, Unwrap(maybe_duration))
    ELSE setsockopt_scalar(S, env, opt, -1)

\* getsockopt_duration(mut_sock_ptr, option): value is an Option<Duration>
getsockopt_duration(S, env, opt) ==
    LET r == getsockopt_scalar(S, env, opt) IN
    [r EXCEPT !.value = IF r.value = -1 THEN None ELSE Some(r.value)]

\* setsockopt_bool(mut_sock_ptr, option, enabled)
setsockopt_bool(S, env, opt, enabled) ==
    setsockopt_scalar(S, env, opt, IF enabled THEN 1 ELSE 0)

\* getsockopt_bool(mut_sock_ptr, option)
getsockopt_bool(S, env, opt) ==
    LET r == getsockopt_scalar(S, env, opt) IN
    [r EXCEPT !.value = (r.value # 0)]

----------------------------------------------------------------------------
(* trait Socket: the option accessors.                                     *)

\* Socket::backlog
backlog(S, env) == getsockopt_scalar(S, env, "backlog")

\* Socket::set_backlog
set_backlog(S, env, value) == setsockopt_scalar(S, env, "backlog", value)

\* Socket::connect_timeout: a stored duration of zero reads as None
connect_timeout(S, env) ==
    LET r == getsockopt_duration(S, env, "connect_timeout") IN
    IF ~IsOk(r.res) THEN r
    ELSE IF IsSome(r.value) /\ Unwrap(r.value) > 0 THEN r
    ELSE [r EXCEPT !.value = None]

\* Socket::set_connect_timeout: assert!(duration.as_millis() > 0)
set_connect_timeout(S, env, maybe_duration) ==
    IF IsSome(maybe_duration) /\ ~(Unwrap(maybe_duration) > 0)
    THEN Out(S, Panic, <<>>)
    ELSE setsockopt_duration(S, env, "connect_timeout", maybe_duration)

\* Socket::heartbeat_interval
heartbeat_interval(S, env) ==
    getsockopt_duration(S, env, "heartbeat_interval")

\* Socket::set_heartbeat_interval
set_heartbeat_interval(S, env, maybe_duration) ==
    setsockopt_duration(S, env, "heartbeat_interval", maybe_duration)

\* Socket::heartbeat_timeout
heartbeat_timeout(S, env) ==
    getsockopt_duration(S, env, "heartbeat_timeout")

\* Socket::set_heartbeat_timeout
set_heartbeat_timeout(S, env, maybe_duration) ==
    setsockopt_duration(S, env, "heartbeat_timeout", maybe_duration)

\* Socket::heartbeat_ttl
heartbeat_ttl(S, env) == getsockopt_duration(S, env, "heartbeat_ttl")

\* Socket::set_heartbeat_ttl: if ms <= MAX_HB_TTL { return Err(InvalidInput) }
set_heartbeat_ttl(S, env, maybe_duration) ==
    IF IsSome(maybe_duration) /\ Unwrap(maybe_duration) <= MAX_HB_TTL
    THEN Out(S, Error_new(KindMsg("InvalidInput",
                                  "duration ms cannot exceed 6553599")), <<>>)
    ELSE setsockopt_duration(S, env, "heartbeat_ttl", maybe_duration)

\* a variant of the getter that hands out the engine's value as a limit
send_high_water_mark_raw(S, env) ==
    LET r == getsockopt_scalar(S, env, "send_hwm") IN
    [r EXCEPT !.value = Some(r.value)]

\* SendMsg::send_high_water_mark: if limit == 0 { Ok(None) }
send_high_water_mark(S, env) ==
    LET r == getsockopt_scalar(S, env, "send_hwm") IN
    [r EXCEPT !.value = IF r.value = 0 THEN None ELSE Some(r.value)]

\* a variant of the setter without the assertion on the limit
set_send_high_water_mark_unchecked(S, env, maybe_limit) ==
    IF IsSome(maybe_limit)
    THEN setsockopt_scalar(S, env, "send_hwm", Unwrap(maybe_limit))
    ELSE setsockopt_scalar(S, env, "send_hwm", 0)

\* SendMsg::set_send_high_water_mark: assert!(limit != 0)
set_send_high_water_mark(S, env, maybe_limit) ==
    IF IsSome(maybe_limit)
    THEN IF Unwrap(maybe_limit) = 0 THEN Out(S, Panic, <<>>)
         ELSE setsockopt_scalar(S, env, "send_hwm", Unwrap(maybe_limit))
    ELSE setsockopt_scalar(S, env, "send_hwm", 0)

\* RecvMsg::recv_high_water_mark: if limit == 0 { Ok(None) }
recv_high_water_mark(S, env) ==
    LET r == getsockopt_scalar(S, env, "recv_hwm") IN
    [r EXCEPT !.value = IF r.value = 0 THEN None ELSE Some(r.value)]

\* RecvMsg::set_recv_high_water_mark: assert!(limit != 0)
set_recv_high_water_mark(S, env, maybe_limit) ==
    IF IsSome(maybe_limit)
    THEN IF Unwrap(maybe_limit) = 0 THEN Out(S, Panic, <<>>)
         ELSE setsockopt_scalar(S, env, "recv_hwm", Unwrap(maybe_limit))
    ELSE setsockopt_scalar(S, env, "recv_hwm", 0)

\* Radio::no_drop
no_drop(S, env) == getsockopt_bool(S, env, "no_drop")

\* a variant of Radio::set_no_drop that sets the opposite flag
set_no_drop_inverted(S, env, enabled) ==
    setsockopt_bool(S, env, "no_drop", ~enabled)

\* Radio::set_no_drop
set_no_drop(S, env, enabled) == setsockopt_bool(S, env, "no_drop", enabled)

----------------------------------------------------------------------------
(* RawSocket: opening and closing the native socket; Dish groups.          *)

\* a variant of the match in RawSocket::with_ctx whose default arm returns
\* an error
with_ctx_errno_lenient(errno) ==
    CASE errno = "EINVAL" -> Panic
      [] errno = "EFAULT" -> Panic
      [] errno = "EMFILE" -> Error_new(Kind("SocketLimit"))
      [] errno = "ETERM" -> Error_new(Kind("CtxTerminated"))
      [] OTHER -> Error_new(Kind("SocketLimit"))

\* the match on zmq_errno() in RawSocket::with_ctx
with_ctx_errno(errno) ==
    CASE errno = "EINVAL" -> Panic
      [] errno = "EFAULT" -> Panic
      [] errno = "EMFILE" -> Error_new(Kind("SocketLimit"))
      [] errno = "ETERM" -> Error_new(Kind("CtxTerminated"))
      [] OTHER -> Panic

\* RawSocket::with_ctx(sock_type, ctx)
with_ctx(env, sock_type, ctx) ==
    LET r == zmq_socket(env, sock_type, ctx) IN
    Out(r.S, IF r.rc = -1 THEN with_ctx_errno(r.errno) ELSE Ok,
        <<Call("zmq_socket", sock_type, 0)>>)

\* the match on zmq_errno() in Drop for RawSocket: every failure of
\* zmq_close is fatal
drop_errno(errno) ==
    CASE errno = "EFAULT" -> Panic
      [] OTHER -> Panic

\* a variant of Drop for RawSocket that does not close the socket
drop_leak(S) == Out(S, Ok, <<>>)

\* impl Drop for RawSocket
drop(S) ==
    LET r == zmq_close(S) IN
    Out(r.S, IF r.rc = -1 THEN drop_errno(r.errno) ELSE Ok,
        <<Call("zmq_close", Nil, 0)>>)

\* a variant in which a refused group is a fatal error
join_errno_fatal(errno) ==
    CASE errno = "ETERM" -> Error_new(Kind("CtxTerminated"))
      [] errno = "EINTR" -> Error_new(Kind("Interrupted"))
      [] OTHER -> Panic

\* the match on zmq_errno() in Dish::join
join_errno(errno) ==
    CASE errno = "EINVAL" ->
           Error_new(KindMsg("InvalidInput", "invalid group"))
      [] errno = "ETERM" -> Error_new(Kind("CtxTerminated"))
      [] errno = "EINTR" -> Error_new(Kind("Interrupted"))
      [] errno = "ENOTSOCK" -> Panic
      [] errno = "EMTHREAD" -> Panic
      [] OTHER -> Panic

\* Dish::join
join(S, env, group) ==
    LET r == zmq_join(S, env, group) IN
    Out(r.S, IF r.rc = -1 THEN join_errno(r.errno) ELSE Ok,
        <<Call("zmq_join", group, 0)>>)

\* the match on zmq_errno() in Dish::leave
leave_errno(errno) ==
    CASE errno = "EINVAL" ->
           Error_new(KindMsg("InvalidInput", "invalid group"))
      [] errno = "ETERM" -> Error_new(Kind("CtxTerminated"))
      [] errno = "EINTR" -> Error_new(Kind("Interrupted"))
      [] errno = "ENOTSOCK" -> Panic
      [] errno = "EMTHREAD" -> Panic
      [] OTHER -> Panic

\* Dish::leave
leave(S, env, group) ==
    LET r == zmq_leave(S, env, group) IN
    Out(r.S, IF r.rc = -1 THEN leave_errno(r.errno) ELSE Ok,
        <<Call("zmq_leave", group, 0)>>)

----------------------------------------------------------------------------
(* Configurations.  SharedConfig holds the optional fields of every role's *)
(* configuration; RadioConfig adds no_drop and DishConfig adds groups.     *)
(* The ClientConfig of socket/client.rs is layered instead: a socket, a    *)
(* send, a recv and a heartbeat configuration.  One record holds the       *)
(* fields of both; kind says which configuration type it is.               *)

ConfigKinds == Roles \cup {"LayeredClient"}

\* SharedConfig::default() and the defaults of the role configurations
Default(kind) ==
    [kind |-> kind, connect |-> None, bind |-> None, backlog |-> None,
     connect_timeout |-> None, heartbeat_interval |-> None,
     heartbeat_timeout |-> None, heartbeat_ttl |-> None,
     no_drop |-> None, groups |-> None,
     send_hwm |-> None, recv_hwm |-> None, heartbeat |-> None]

\* SocketConfig::connect(endpoints)
config_connect(config, endpoints) ==
    [config EXCEPT !.connect = Some(endpoints)]

\* SocketConfig::bind(endpoints)
config_bind(config, endpoints) == [config EXCEPT !.bind = Some(endpoints)]

\* SocketConfig::backlog(len)
config_backlog(config, len) == [config EXCEPT !.backlog = Some(len)]

\* SocketConfig::connect_timeout(maybe_duration)
config_connect_timeout(config, maybe_duration) ==
    [config EXCEPT !.connect_timeout = maybe_duration]

\* SocketConfig::heartbeat_interval(maybe_duration)
config_heartbeat_interval(config, maybe_duration) ==
    [config EXCEPT !.heartbeat_interval = maybe_duration]

\* SocketConfig::heartbeat_timeout(maybe_duration)
config_heartbeat_timeout(config, maybe_duration) ==
    [config EXCEPT !.heartbeat_timeout = maybe_duration]

\* SocketConfig::heartbeat_ttl(maybe_duration)
config_heartbeat_ttl(config, maybe_duration) ==
    [config EXCEPT !.heartbeat_ttl = maybe_duration]

\* F applied to the value of v, v evaluated once
With(v, F(_)) == CHOOSE x \in {F(r) : r \in {v}} : TRUE

\* r?; F(socket): the error of r, or else the calls of r, then F on the
\* socket r left
Try(r, F(_)) ==
    With(r, LAMBDA a :
      IF ~IsOk(a.res) THEN a
      ELSE With(F(a.S), LAMBDA b : Out(b.S, b.res, a.calls \o b.calls)))

\* for endpoint in endpoints { socket.connect(endpoint)?; }
RECURSIVE connect_each(_, _, _)
connect_each(S, env, endpoints) ==
    IF endpoints = <<>> THEN Out(S, Ok, <<>>)
    ELSE Try(connect(S, env, Head(endpoints)),
             LAMBDA S1 : connect_each(S1, env, Tail(endpoints)))

\* for endpoint in endpoints { socket.bind(endpoint)?; }
RECURSIVE bind_each(_, _, _)
bind_each(S, env, endpoints) ==
    IF endpoints = <<>> THEN Out(S, Ok, <<>>)
    ELSE Try(bind(S, env, Head(endpoints)),
             LAMBDA S1 : bind_each(S1, env, Tail(endpoints)))

\* if let Some(ref endpoints) = config.connect { ... }
apply_connect(S, env, config) ==
    IF IsSome(config.connect)
    THEN connect_each(S, env, Unwrap(config.connect))
    ELSE Out(S, Ok, <<>>)

\* if let Some(ref endpoints) = config.bind { ... }
apply_bind(S, env, config) ==
    IF IsSome(config.bind)
    THEN bind_each(S, env, Unwrap(config.bind))
    ELSE Out(S, Ok, <<>>)

\* a variant that adds the configured backlog to the socket's backlog
apply_backlog_add(S, env, config) ==
    IF IsSome(config.backlog)
    THEN set_backlog(S, env, S.opt.backlog + Unwrap(config.backlog))
    ELSE Out(S, Ok, <<>>)

\* if let Some(value) = config.backlog { socket.set_backlog(value)?; }
apply_backlog(S, env, config) ==
    IF IsSome(config.backlog)
    THEN set_backlog(S, env, Unwrap(config.backlog))
    ELSE Out(S, Ok, <<>>)

\* socket.set_connect_timeout(config.connect_timeout)?;
apply_connect_timeout(S, env, config) ==
    set_connect_timeout(S, env, config.connect_timeout)

\* a variant of apply that binds before it connects
SocketConfig_apply_bind_first(S, env, config) ==
    Try(Try(Try(apply_bind(S, env, config),
                LAMBDA S1 : apply_connect(S1, env, config)),
            LAMBDA S2 : apply_backlog(S2, env, config)),
        LAMBDA S3 : apply_connect_timeout(S3, env, config))

\* SocketConfig::apply(socket)
SocketConfig_apply(S, env, config) ==
    Try(Try(Try(apply_connect(S, env, config),
                LAMBDA S1 : apply_bind(S1, env, config)),
            LAMBDA S2 : apply_backlog(S2, env, config)),
        LAMBDA S3 : apply_connect_timeout(S3, env, config))

\* a variant in which a socket whose configuration failed is left open
Dropped_keep(r) == r

\* leaving the scope of a socket on an error: the socket is dropped
Dropped(r) ==
    IF IsOk(r.res) THEN r
    ELSE With(drop(r.S), LAMBDA d : Out(d.S, r.res, r.calls \o d.calls))

\* the socket of a builder: with_ctx(ctx)?, then the configuration steps;
\* a step that fails drops the socket
Built(r0, F(_)) ==
    With(r0, LAMBDA a :
      IF ~IsOk(a.res) THEN a ELSE With(Try(a, F), LAMBDA b : Dropped(b)))

\* ClientConfig::build_with_ctx and ServerConfig::build_with_ctx
build_with_ctx(env, config, ctx) ==
    Built(with_ctx(env, config.kind, ctx),
          LAMBDA S1 : SocketConfig_apply(S1, env, config))

\* if let Some(enabled) = self.no_drop { radio.set_no_drop(enabled)?; }
build_no_drop(S, env, config) ==
    IF IsSome(config.no_drop)
    THEN set_no_drop(S, env, Unwrap(config.no_drop))
    ELSE Out(S, Ok, <<>>)

\* RadioConfig::build_with_ctx
RadioConfig_build_with_ctx(env, config, ctx) ==
    Built(with_ctx(env, "Radio", ctx),
          LAMBDA S1 : Try(SocketConfig_apply(S1, env, config),
                          LAMBDA S2 : build_no_drop(S2, env, config)))

\* for group in groups { dish.join(group)?; }
RECURSIVE join_each(_, _, _)
join_each(S, env, groups) ==
    IF groups = <<>> THEN Out(S, Ok, <<>>)
    ELSE Try(join(S, env, Head(groups)),
             LAMBDA S1 : join_each(S1, env, Tail(groups)))

\* if let Some(ref groups) = self.groups { ... }
build_groups(S, env, config) ==
    IF IsSome(config.groups)
    THEN join_each(S, env, Unwrap(config.groups))
    ELSE Out(S, Ok, <<>>)

\* DishConfig::build_with_ctx
DishConfig_build_with_ctx(env, config, ctx) ==
    Built(with_ctx(env, "Dish", ctx),
          LAMBDA S1 : Try(SocketConfig_apply(S1, env, config),
                          LAMBDA S2 : build_groups(S2, env, config)))

\* SendConfig::apply: pushes the send options that are set
SendConfig_apply(S, env, config) ==
    IF IsSome(config.send_hwm)
    THEN setsockopt_scalar(S, env, "send_hwm", Unwrap(config.send_hwm))
    ELSE Out(S, Ok, <<>>)

\* RecvConfig::apply: pushes the receive options that are set
RecvConfig_apply(S, env, config) ==
    IF IsSome(config.recv_hwm)
    THEN setsockopt_scalar(S, env, "recv_hwm", Unwrap(config.recv_hwm))
    ELSE Out(S, Ok, <<>>)

\* HeartbeatingConfig::apply: pushes the heartbeat when one is set
HeartbeatingConfig_apply(S, env, config) ==
    IF IsSome(config.heartbeat)
    THEN setsockopt_duration(S, env, "heartbeat_interval", config.heartbeat)
    ELSE Out(S, Ok, <<>>)

\* SocketConfig::apply of the layered configuration: connects, then binds
Layered_SocketConfig_apply(S, env, config) ==
    Try(apply_connect(S, env, config),
        LAMBDA S1 : apply_bind(S1, env, config))

\* ClientConfig::apply of socket/client.rs
ClientConfig_apply(S, env, config) ==
    Try(Try(Try(SendConfig_apply(S, env, config),
                LAMBDA S1 : RecvConfig_apply(S1, env, config)),
            LAMBDA S2 : HeartbeatingConfig_apply(S2, env, config)),
        LAMBDA S3 : Layered_SocketConfig_apply(S3, env, config))

\* ClientConfig::with_ctx of socket/client.rs
ClientConfig_with_ctx(env, config, handle) ==
    Built(with_ctx(env, "Client", handle),
          LAMBDA S1 : ClientConfig_apply(S1, env, config))

\* the apply of a configuration, by its type
Apply_of(S, env, config) ==
    IF config.kind = "LayeredClient" THEN ClientConfig_apply(S, env, config)
    ELSE SocketConfig_apply(S, env, config)

\* the build of a configuration, by its type
Build_of(env, config, ctx) ==
    CASE config.kind = "LayeredClient" ->
           ClientConfig_with_ctx(env, config, ctx)
      [] config.kind = "Radio" -> RadioConfig_build_with_ctx(env, config, ctx)
      [] config.kind = "Dish" -> DishConfig_build_with_ctx(env, config, ctx)
      [] OTHER -> build_with_ctx(env, config, ctx)

\* the role of the socket a configuration builds
RoleOf(kind) == IF kind = "LayeredClient" THEN "Client" ELSE kind

----------------------------------------------------------------------------
(* The state machine of the socket calls.                                  *)

\* a variant in which every role can send
SendRoles_all == Roles

SendRoles == {"Client", "Server", "Radio"}
RecvRoles == {"Client", "Server", "Dish"}

\* the names a caller may pass to join / leave: the groups, and one name
\* longer than the 15 characters a group may have
GroupNames == Groups \cup {"a_group_name_of_20_c"}

\* the most recent step
Step(op, s, arg, res) ==
    [op |-> op, sock |-> s, arg |-> arg, val |-> None, msg |-> Msg_new,
     res |-> res]

\* the same for a call that takes or fills a message
StepMsg(op, s, msg, res) == [Step(op, s, Nil, res) EXCEPT !.msg = msg]

\* and for a call that takes or returns an option value
StepVal(op, s, arg, val, res) == [Step(op, s, arg, res) EXCEPT !.val = val]

\* the answer of a blocking call the engine has not returned from
Blocked == [kind |-> Kind("blocked"), content |-> None]

\* what the engine sees around socket s: its context's termination, a signal
\* delivered during the call, the addresses bound by the process' sockets
Env(s, sig) ==
    [term |-> sock[s].ctx \in terminated, sig |-> sig,
     inuse |-> UNION {sock[x].bound : x \in Socks}, full |-> FALSE]

\* what zmq_socket sees on context c
EnvCtx(c) ==
    [term |-> c \in terminated, sig |-> FALSE, inuse |-> {},
     full |-> \A x \in Socks : sock[x].state = "open"]

\* the process goes on until a call panics
Running == ~IsPanic(last.res)

Idle(t) == Running /\ pending[t] = None
Open(s) == sock[s].state = "open"
InCall(s) == \E t \in Threads : IsSome(pending[t]) /\ Unwrap(pending[t]).sock = s

\* a call on socket s that returns at once with r
Return(op, s, arg, r) ==
    /\ sock' = [sock EXCEPT ![s] = r.S]
    /\ last' = Step(op, s, arg, r.res)
    /\ calls' = r.calls

ReturnMsg(op, s, msg, r) ==
    /\ sock' = [sock EXCEPT ![s] = r.S]
    /\ last' = StepMsg(op, s, msg, r.res)
    /\ calls' = r.calls

cfgVars == <<cfg, phase>>

\* Client::with_ctx, Server::with_ctx, Radio::with_ctx, Dish::with_ctx
New(t, s, role, c) ==
    /\ Idle(t)
    /\ ~Open(s)
    /\ Return("new", s, role, with_ctx(EnvCtx(c), role, c))
    /\ UNCHANGED <<terminated, pending, cfgVars>>

\* with_ctx when the socket table is full
NewAtLimit(t, role, c) ==
    /\ Idle(t)
    /\ \A x \in Socks : Open(x)
    /\ LET r == with_ctx(EnvCtx(c), role, c) IN
         /\ last' = Step("new", Nil, role, r.res)
         /\ calls' = r.calls
    /\ UNCHANGED <<sock, terminated, pending, cfgVars>>

\* dropping the socket: impl Drop for RawSocket
Close(t, s) ==
    /\ Idle(t)
    /\ Open(s)
    /\ ~InCall(s)
    /\ Return("drop", s, Nil, drop(sock[s]))
    /\ UNCHANGED <<terminated, pending, cfgVars>>

\* Socket::connect
Connect(t, s, e) ==
    /\ Idle(t) /\ Open(s)
    /\ Return("connect", s, e, connect(sock[s], Env(s, FALSE), e))
    /\ UNCHANGED <<terminated, pending, cfgVars>>

\* Socket::bind
Bind(t, s, e) ==
    /\ Idle(t) /\ Open(s)
    /\ Return("bind", s, e, bind(sock[s], Env(s, FALSE), e))
    /\ UNCHANGED <<terminated, pending, cfgVars>>

\* Socket::disconnect
Disconnect(t, s, e) ==
    /\ Idle(t) /\ Open(s)
    /\ Return("disconnect", s, e, disconnect(sock[s], Env(s, FALSE), e))
    /\ UNCHANGED <<terminated, pending, cfgVars>>

\* Socket::unbind
Unbind(t, s, e) ==
    /\ Idle(t) /\ Open(s)
    /\ Return("unbind", s, e, unbind(sock[s], Env(s, FALSE), e))
    /\ UNCHANGED <<terminated, pending, cfgVars>>

\* Dish::join
Join(t, s, g) ==
    /\ Idle(t) /\ Open(s) /\ sock[s].role = "Dish"
    /\ Return("join", s, g, join(sock[s], Env(s, FALSE), g))
    /\ UNCHANGED <<terminated, pending, cfgVars>>

\* Dish::leave
Leave(t, s, g) ==
    /\ Idle(t) /\ Open(s) /\ sock[s].role = "Dish"
    /\ Return("leave", s, g, leave(sock[s], Env(s, FALSE), g))
    /\ UNCHANGED <<terminated, pending, cfgVars>>

\* SendMsg::send: the calling thread stays in the engine while it blocks
Send(t, s, sendable, sig) ==
    /\ Idle(t) /\ Open(s) /\ sock[s].role \in SendRoles
    /\ LET r == send(sock[s], Env(s, sig), sendable, FALSE) IN
         IF r.blocks
         THEN /\ pending' = [pending EXCEPT ![t] =
                    Some([op |-> "send", sock |-> s, msg |-> sendable])]
              /\ last' = StepMsg("send", s, sendable, Blocked)
              /\ calls' = r.calls
              /\ UNCHANGED sock
         ELSE /\ ReturnMsg("send", s, sendable, r)
              /\ UNCHANGED pending
    /\ UNCHANGED <<terminated, cfgVars>>

\* a variant of the return of a blocked send that reports success without
\* handing the message to the engine
SendWake_discard(t, sig) ==
    /\ Running /\ IsSome(pending[t]) /\ Unwrap(pending[t]).op = "send"
    /\ LET c == Unwrap(pending[t]) IN
         /\ ReturnMsg("send", c.sock, c.msg, Out(sock[c.sock], Ok, <<>>))
         /\ pending' = [pending EXCEPT ![t] = None]
    /\ UNCHANGED <<terminated, cfgVars>>

\* the engine answers a blocked send
SendWake(t, sig) ==
    /\ Running /\ IsSome(pending[t]) /\ Unwrap(pending[t]).op = "send"
    /\ LET c == Unwrap(pending[t])
           r == send(sock[c.sock], Env(c.sock, sig), c.msg, FALSE) IN
         /\ ~r.blocks
         /\ ReturnMsg("send", c.sock, c.msg, r)
         /\ pending' = [pending EXCEPT ![t] = None]
    /\ UNCHANGED <<terminated, cfgVars>>

\* a variant of send_poll that passes the flag of the blocking call
SendPoll_wait(t, s, sendable) ==
    /\ Idle(t) /\ Open(s) /\ sock[s].role \in SendRoles
    /\ LET r == send(sock[s], Env(s, FALSE), sendable, FALSE) IN
         IF r.blocks
         THEN /\ pending' = [pending EXCEPT ![t] =
                    Some([op |-> "send", sock |-> s, msg |-> sendable])]
              /\ last' = StepMsg("send_poll", s, sendable, Blocked)
              /\ calls' = r.calls
              /\ UNCHANGED sock
         ELSE /\ ReturnMsg("send_poll", s, sendable, r)
              /\ UNCHANGED pending
    /\ UNCHANGED <<terminated, cfgVars>>

\* SendMsg::send_poll
SendPoll(t, s, sendable) ==
    /\ Idle(t) /\ Open(s) /\ sock[s].role \in SendRoles
    /\ ReturnMsg("send_poll", s, sendable,
                 send(sock[s], Env(s, FALSE), sendable, TRUE))
    /\ UNCHANGED <<terminated, pending, cfgVars>>

\* RecvMsg::recv into a fresh buffer (recv_msg)
Recv(t, s, sig) ==
    /\ Idle(t) /\ Open(s) /\ sock[s].role \in RecvRoles
    /\ LET r == recv(sock[s], Env(s, sig), Msg_new, FALSE) IN
         IF r.blocks
         THEN /\ pending' = [pending EXCEPT ![t] =
                    Some([op |-> "recv", sock |-> s, msg |-> Msg_new])]
              /\ last' = StepMsg("recv", s, Msg_new, Blocked)
              /\ calls' = r.calls
              /\ UNCHANGED sock
         ELSE /\ ReturnMsg("recv", s, r.msg, r)
              /\ UNCHANGED pending
    /\ UNCHANGED <<terminated, cfgVars>>

\* the engine answers a blocked recv
RecvWake(t, sig) ==
    /\ Running /\ IsSome(pending[t]) /\ Unwrap(pending[t]).op = "recv"
    /\ LET c == Unwrap(pending[t])
           r == recv(sock[c.sock], Env(c.sock, sig), c.msg, FALSE) IN
         /\ ~r.blocks
         /\ ReturnMsg("recv", c.sock, r.msg, r)
         /\ pending' = [pending EXCEPT ![t] = None]
    /\ UNCHANGED <<terminated, cfgVars>>

\* RecvMsg::recv_poll into a fresh buffer (recv_msg_poll)
RecvPoll(t, s) ==
    /\ Idle(t) /\ Open(s) /\ sock[s].role \in RecvRoles
    /\ LET r == recv(sock[s], Env(s, FALSE), Msg_new, TRUE) IN
         ReturnMsg("recv_poll", s, r.msg, r)
    /\ UNCHANGED <<terminated, pending, cfgVars>>

\* Ctx::terminate, from any thread: irreversible
Terminate(c) ==
    /\ Running
    /\ c \notin terminated
    /\ terminated' = terminated \cup {c}
    /\ last' = Step("terminate", Nil, c, Ok)
    /\ calls' = <<>>
    /\ UNCHANGED <<sock, pending, cfgVars>>

\* the engine: a remote client attaches to a bound Server / Client
PeerAttach(s, rid) ==
    /\ Running /\ Open(s) /\ sock[s].ctx \notin terminated
    /\ sock[s].role \in {"Client", "Server"}
    /\ sock[s].bound # {}
    /\ rid \notin sock[s].peers
    /\ sock' = [sock EXCEPT ![s].peers = @ \cup {rid}]
    /\ UNCHANGED <<terminated, pending, cfgVars, last, calls>>

\* the engine: a message from a peer reaches the inbound queue
Deliver(s, m) ==
    /\ Running /\ Open(s) /\ sock[s].ctx \notin terminated
    /\ sock[s].role \in RecvRoles
    /\ sock[s].connected # {} \/ sock[s].bound # {}
    /\ sock[s].role = "Dish" => sock[s].groups # {}
    /\ (m.routing_id # Nil) <=> (sock[s].role = "Server")
    /\ sock[s].role = "Server" => m.routing_id \in sock[s].peers
    /\ Len(sock[s].inq) < MaxQueue
    /\ sock' = [sock EXCEPT ![s].inq = Append(@, m)]
    /\ UNCHANGED <<terminated, pending, cfgVars, last, calls>>

\* the engine: the head of the outbound queue leaves for the peer
Transmit(s) ==
    /\ Running /\ Open(s) /\ sock[s].ctx \notin terminated
    /\ sock[s].outq # <<>>
    /\ sock' = [sock EXCEPT ![s].outq = Tail(@)]
    /\ UNCHANGED <<terminated, pending, cfgVars, last, calls>>

DefaultConfig == Default("Client")

Init ==
    /\ sock = [s \in Socks |-> NoSocket]
    /\ terminated = {}
    /\ pending = [t \in Threads |-> None]
    /\ cfg = DefaultConfig
    /\ phase = "config"
    /\ last = Step("init", Nil, Nil, Ok)
    /\ calls = <<>>

Next ==
    \/ \E t \in Threads, s \in Socks, role \in Roles, c \in Ctxs :
         New(t, s, role, c)
    \/ \E t \in Threads, role \in Roles, c \in Ctxs : NewAtLimit(t, role, c)
    \/ \E t \in Threads, s \in Socks : Close(t, s)
    \/ \E t \in Threads, s \in Socks, e \in Endpoints : Connect(t, s, e)
    \/ \E t \in Threads, s \in Socks, e \in Endpoints : Bind(t, s, e)
    \/ \E t \in Threads, s \in Socks, e \in Endpoints : Disconnect(t, s, e)
    \/ \E t \in Threads, s \in Socks, e \in Endpoints : Unbind(t, s, e)
    \/ \E t \in Threads, s \in Socks, g \in GroupNames : Join(t, s, g)
    \/ \E t \in Threads, s \in Socks, g \in GroupNames : Leave(t, s, g)
    \/ \E t \in Threads, s \in Socks, m \in Msgs, sig \in BOOLEAN :
         Send(t, s, m, sig)
    \/ \E t \in Threads, sig \in BOOLEAN : SendWake(t, sig)
    \/ \E t \in Threads, s \in Socks, m \in Msgs : SendPoll(t, s, m)
    \/ \E t \in Threads, s \in Socks, sig \in BOOLEAN : Recv(t, s, sig)
    \/ \E t \in Threads, sig \in BOOLEAN : RecvWake(t, sig)
    \/ \E t \in Threads, s \in Socks : RecvPoll(t, s)
    \/ \E c \in Ctxs : Terminate(c)
    \/ \E s \in Socks, rid \in RoutingIds : PeerAttach(s, rid)
    \/ \E s \in Socks, m \in Msgs : Deliver(s, m)
    \/ \E s \in Socks : Transmit(s)

Spec == Init /\ [][Next]_vars

\* a blocked call returns when the engine can answer it
LiveSpec ==
    /\ Spec
    /\ \A t \in Threads :
         /\ WF_vars(\E sig \in BOOLEAN : RecvWake(t, sig))
         /\ WF_vars(\E sig \in BOOLEAN : SendWake(t, sig))

----------------------------------------------------------------------------
(* Properties of the socket calls.                                         *)

SendOps == {"send", "send_poll"}

\* a step that returns from send or send_poll
SendReturns ==
    /\ \E t \in Threads :
         \/ \E s \in Socks, m \in Msgs, sig \in BOOLEAN : Send(t, s, m, sig)
         \/ \E s \in Socks, m \in Msgs : SendPoll(t, s, m)
         \/ \E sig \in BOOLEAN : SendWake(t, sig)
    /\ last'.res # Blocked

\* C1: a send or send_poll of payload P that fails (WouldBlock,
\* CtxTerminated, Interrupted, HostUnreachable) returns an error whose
\* content is exactly P, and the socket's queues are as before the call:
\* the message was not queued, lost or duplicated.
C1_FailedSendReturnsMessage ==
    [][(last'.op \in SendOps /\ ~IsOk(last'.res)) =>
          \/ /\ IsErr(last'.res)
             /\ last'.res.kind.tag \in
                  {"WouldBlock", "CtxTerminated", "Interrupted",
                   "HostUnreachable"}
             /\ last'.res.content = Some(last'.msg)
             /\ sock' = sock
          \/ ~SendReturns]_vars

C1_Witness ==
    /\ last.op = "send"
    /\ last.res.kind.tag = "HostUnreachable"
    /\ last.res.content = Some(last.msg)
    /\ last.msg.data = "p2"

CallOn(c) ==
    \E t \in Threads :
      \/ \E s \in Socks, role \in Roles : New(t, s, role, c)
      \/ \E role \in Roles : NewAtLimit(t, role, c)
      \/ \E s \in Socks :
           /\ sock[s].ctx = c
           /\ \/ \E e \in Endpoints :
                   \/ Connect(t, s, e) \/ Bind(t, s, e)
                   \/ Disconnect(t, s, e) \/ Unbind(t, s, e)
              \/ \E g \in GroupNames : Join(t, s, g) \/ Leave(t, s, g)
              \/ \E m \in Msgs :
                   \/ SendPoll(t, s, m)
                   \/ \E sig \in BOOLEAN : Send(t, s, m, sig)
              \/ RecvPoll(t, s)
              \/ \E sig \in BOOLEAN : Recv(t, s, sig)
      \/ /\ IsSome(pending[t])
         /\ sock[Unwrap(pending[t]).sock].ctx = c
         /\ \E sig \in BOOLEAN : SendWake(t, sig) \/ RecvWake(t, sig)

\* C3: once a context is terminated it stays terminated, and every later
\* connect, bind, disconnect, unbind, send, send_poll, recv, recv_poll, join,
\* leave and socket creation on it returns CtxTerminated.
C3_TerminatedCtxRefusesCalls ==
    [][/\ terminated \subseteq terminated'
       /\ \A c \in terminated :
            last'.res.kind.tag = "CtxTerminated" \/ ~CallOn(c)]_vars

C3_Witness ==
    /\ terminated # {}
    /\ last.op = "connect"
    /\ last.res.kind.tag = "CtxTerminated"

\* thread t is blocked in a recv or a send on a socket whose context is
\* terminated
BlockedOnTerminated(t) ==
    /\ IsSome(pending[t])
    /\ sock[Unwrap(pending[t]).sock].ctx \in terminated

\* C4: when a context is terminated while a thread is blocked in recv (or
\* send) on one of its sockets, the blocked call eventually returns
\* CtxTerminated.
C4_BlockedCallReturnsCtxTerminated ==
    \A t \in Threads :
      BlockedOnTerminated(t) ~>
        (pending[t] = None /\ last.op \in {"recv", "send"}
           /\ last.res.kind.tag = "CtxTerminated")

C4_Witness ==
    /\ BlockedOnTerminated("t1")
    /\ Unwrap(pending["t1"]).op = "recv"

----------------------------------------------------------------------------
(* The state machine of configurations: a configuration is written while   *)
(* phase = "config", then built into a socket or applied to one.           *)

\* the values the configuration calls are made with
MaxEndpoints == 2
EndpointLists ==
    {l \in UNION {[1..n -> Endpoints] : n \in 1..MaxEndpoints} : TRUE}
GroupLists == {<<"g1">>, <<"g1", "g2">>, <<"g1", "g1">>}
Backlogs == {50}
Timeouts == {None, Some(500)}
Intervals == {None, Some(1000)}
Marks == {10}

\* the socket the configuration machine works on
TheSock == CHOOSE s \in Socks : TRUE

Configuring == Running /\ phase = "config"
Live == Running /\ phase = "live" /\ Open(TheSock)

\* the endpoints a configuration names, connects and binds together
Endpoints_of(config) ==
    (IF IsSome(config.connect) THEN Len(Unwrap(config.connect)) ELSE 0)
      + (IF IsSome(config.bind) THEN Len(Unwrap(config.bind)) ELSE 0)

\* a step that writes the configuration
Configure(config) ==
    /\ Configuring
    /\ Endpoints_of(config) <= MaxEndpoints
    /\ cfg' = config
    /\ last' = Step("config", Nil, Nil, Ok)
    /\ calls' = <<>>
    /\ UNCHANGED <<sock, terminated, pending, phase>>

\* ClientConfig::new, ServerConfig::new, RadioConfig::new, DishConfig::new
ConfigNew(kind) == Configure(Default(kind))

ConfigConnect(endpoints) ==
    cfg.kind \in ConfigKinds /\ Configure(config_connect(cfg, endpoints))

ConfigBind(endpoints) ==
    cfg.kind \in ConfigKinds /\ Configure(config_bind(cfg, endpoints))

ConfigBacklog(len) ==
    cfg.kind \in Roles /\ Configure(config_backlog(cfg, len))

ConfigConnectTimeout(d) ==
    cfg.kind \in Roles /\ Configure(config_connect_timeout(cfg, d))

ConfigHeartbeatInterval(d) ==
    cfg.kind \in Roles /\ Configure(config_heartbeat_interval(cfg, d))

ConfigHeartbeatTimeout(d) ==
    cfg.kind \in Roles /\ Configure(config_heartbeat_timeout(cfg, d))

ConfigHeartbeatTtl(d) ==
    cfg.kind \in Roles /\ Configure(config_heartbeat_ttl(cfg, d))

\* RadioConfig.no_drop, as deserialized
ConfigNoDrop(enabled) ==
    cfg.kind = "Radio" /\ Configure([cfg EXCEPT !.no_drop = Some(enabled)])

\* DishConfig.groups, as deserialized
ConfigGroups(groups) ==
    cfg.kind = "Dish" /\ Configure([cfg EXCEPT !.groups = Some(groups)])

\* the send, receive and heartbeat configuration of the layered client
ConfigSendHwm(hwm) ==
    /\ cfg.kind = "LayeredClient"
    /\ Configure([cfg EXCEPT !.send_hwm = Some(hwm)])

ConfigRecvHwm(hwm) ==
    /\ cfg.kind = "LayeredClient"
    /\ Configure([cfg EXCEPT !.recv_hwm = Some(hwm)])

ConfigHeartbeat(d) ==
    /\ cfg.kind = "LayeredClient"
    /\ Configure([cfg EXCEPT !.heartbeat = d])

\* build_with_ctx(ctx) / with_ctx(handle) of the configuration
Build(c) ==
    /\ Configuring
    /\ ~Open(TheSock)
    /\ \E r \in {Build_of(EnvCtx(c), cfg, c)} :
         Return("build", TheSock, cfg.kind, r)
    /\ phase' = "live"
    /\ UNCHANGED <<terminated, pending, cfg>>

\* with_ctx(ctx) of the role: a fresh socket to apply the configuration to
Fresh(c) ==
    /\ Configuring
    /\ ~Open(TheSock)
    /\ \E r \in {with_ctx(EnvCtx(c), RoleOf(cfg.kind), c)} :
         Return("new", TheSock, RoleOf(cfg.kind), r)
    /\ phase' = "live"
    /\ UNCHANGED <<terminated, pending, cfg>>

\* apply(socket)
Apply ==
    /\ Live
    /\ \E r \in {Apply_of(sock[TheSock], Env(TheSock, FALSE), cfg)} :
         Return("apply", TheSock, cfg.kind, r)
    /\ UNCHANGED <<terminated, pending, cfg, phase>>

\* Socket::set_connect_timeout on the live socket
SetConnectTimeout(d) ==
    /\ Running /\ Open(TheSock)
    /\ \E r \in {set_connect_timeout(sock[TheSock],
                                      Env(TheSock, FALSE), d)} :
         /\ sock' = [sock EXCEPT ![TheSock] = r.S]
         /\ last' = StepVal("set_connect_timeout", TheSock, Nil, d, r.res)
         /\ calls' = r.calls
         /\ UNCHANGED <<terminated, pending, cfg, phase>>

\* the socket goes out of scope; the configuration is kept
Discard ==
    /\ Running /\ phase = "live"
    /\ LET d == drop(sock[TheSock]) IN
         IF Open(TheSock)
         THEN sock' = [sock EXCEPT ![TheSock] = d.S] /\ calls' = d.calls
         ELSE UNCHANGED sock /\ calls' = <<>>
    /\ phase' = "config"
    /\ last' = Step("drop", TheSock, Nil, Ok)
    /\ UNCHANGED <<terminated, pending, cfg>>

NextCfg ==
    \/ \E kind \in ConfigKinds : ConfigNew(kind)
    \/ \E l \in EndpointLists : ConfigConnect(l)
    \/ \E l \in EndpointLists : ConfigBind(l)
    \/ \E len \in Backlogs : ConfigBacklog(len)
    \/ \E d \in Timeouts : ConfigConnectTimeout(d)
    \/ \E d \in Intervals : ConfigHeartbeatInterval(d)
    \/ \E d \in Intervals : ConfigHeartbeatTimeout(d)
    \/ \E d \in Intervals : ConfigHeartbeatTtl(d)
    \/ \E b \in BOOLEAN : ConfigNoDrop(b)
    \/ \E l \in GroupLists : ConfigGroups(l)
    \/ \E h \in Marks : ConfigSendHwm(h)
    \/ \E h \in Marks : ConfigRecvHwm(h)
    \/ \E d \in Intervals : ConfigHeartbeat(d)
    \/ \E c \in Ctxs : Build(c)
    \/ \E c \in Ctxs : Fresh(c)
    \/ Apply
    \/ \E d \in Timeouts : SetConnectTimeout(d)
    \/ Discard
    \/ \E c \in Ctxs : Terminate(c)

SpecCfg == Init /\ [][NextCfg]_vars

----------------------------------------------------------------------------
(* The state machine of the option accessors of one socket.                *)

\* the values the setters are called with
BacklogValues == {0, 50}
TimeoutValues == {None, Some(0), Some(500)}
IntervalValues == {None, Some(1000)}
TtlValues == {None, Some(1000), Some(MAX_HB_TTL), Some(MAX_HB_TTL + 1)}

\* a setter of the live socket that returns r
Set(op, d, r) ==
    /\ sock' = [sock EXCEPT ![TheSock] = r.S]
    /\ last' = StepVal(op, TheSock, Nil, d, r.res)
    /\ calls' = r.calls
    /\ UNCHANGED <<terminated, pending, cfg, phase>>

\* a getter of the live socket that returns r, of value v
Get(op, v, r) ==
    /\ last' = StepVal(op, TheSock, Nil, IF IsOk(r.res) THEN v ELSE None,
                       r.res)
    /\ calls' = r.calls
    /\ UNCHANGED <<sock, terminated, pending, cfg, phase>>

Usable == Running /\ Open(TheSock)
EnvNow == Env(TheSock, FALSE)

SetBacklog(v) ==
    /\ Usable
    /\ \E r \in {set_backlog(sock[TheSock], EnvNow, v)} :
         Set("set_backlog", Some(v), r)

GetBacklog ==
    /\ Usable
    /\ \E r \in {backlog(sock[TheSock], EnvNow)} :
         Get("backlog", Some(r.value), r)

GetConnectTimeout ==
    /\ Usable
    /\ \E r \in {connect_timeout(sock[TheSock], EnvNow)} :
         Get("connect_timeout", r.value, r)

SetHeartbeatInterval(d) ==
    /\ Usable
    /\ \E r \in {set_heartbeat_interval(sock[TheSock], EnvNow, d)} :
         Set("set_heartbeat_interval", d, r)

GetHeartbeatInterval ==
    /\ Usable
    /\ \E r \in {heartbeat_interval(sock[TheSock], EnvNow)} :
         Get("heartbeat_interval", r.value, r)

SetHeartbeatTimeout(d) ==
    /\ Usable
    /\ \E r \in {set_heartbeat_timeout(sock[TheSock], EnvNow, d)} :
         Set("set_heartbeat_timeout", d, r)

GetHeartbeatTimeout ==
    /\ Usable
    /\ \E r \in {heartbeat_timeout(sock[TheSock], EnvNow)} :
         Get("heartbeat_timeout", r.value, r)

SetHeartbeatTtl(d) ==
    /\ Usable
    /\ \E r \in {set_heartbeat_ttl(sock[TheSock], EnvNow, d)} :
         Set("set_heartbeat_ttl", d, r)

GetHeartbeatTtl ==
    /\ Usable
    /\ \E r \in {heartbeat_ttl(sock[TheSock], EnvNow)} :
         Get("heartbeat_ttl", r.value, r)

SetNoDrop(enabled) ==
    /\ Usable /\ sock[TheSock].role = "Radio"
    /\ \E r \in {set_no_drop(sock[TheSock], EnvNow, enabled)} :
         Set("set_no_drop", Some(IF enabled THEN 1 ELSE 0), r)

GetNoDrop ==
    /\ Usable /\ sock[TheSock].role = "Radio"
    /\ \E r \in {no_drop(sock[TheSock], EnvNow)} :
         Get("no_drop", Some(IF r.value THEN 1 ELSE 0), r)

NextOpt ==
    \/ \E t \in Threads, role \in Roles, c \in Ctxs : New(t, TheSock, role, c)
    \/ \E t \in Threads : Close(t, TheSock)
    \/ \E c \in Ctxs : Terminate(c)
    \/ \E v \in BacklogValues : SetBacklog(v)
    \/ GetBacklog
    \/ \E d \in TimeoutValues : SetConnectTimeout(d)
    \/ GetConnectTimeout
    \/ \E d \in IntervalValues : SetHeartbeatInterval(d)
    \/ GetHeartbeatInterval
    \/ \E d \in IntervalValues : SetHeartbeatTimeout(d)
    \/ GetHeartbeatTimeout
    \/ \E d \in TtlValues : SetHeartbeatTtl(d)
    \/ GetHeartbeatTtl
    \/ \E b \in BOOLEAN : SetNoDrop(b)
    \/ GetNoDrop

SpecOpt == Init /\ [][NextOpt]_vars

----------------------------------------------------------------------------
(* Properties of the option accessors.                                     *)

\* C5: set_heartbeat_ttl(Some(d)) with d above 6,553,599 ms returns
\* InvalidInput and makes no engine set-option call, so the socket's heartbeat
\* TTL is unchanged.
C5_TtlAboveMaxRejected ==
    [][\A d \in TtlValues :
         (IsSome(d) /\ Unwrap(d) > MAX_HB_TTL /\ SetHeartbeatTtl(d)) =>
           /\ last'.res.kind.tag = "InvalidInput"
           /\ calls' = <<>>
           /\ sock'[TheSock].opt.heartbeat_ttl
                = sock[TheSock].opt.heartbeat_ttl]_vars

\* C6: set_heartbeat_ttl(Some(d)) with d of at most 6,553,599 ms is not
\* rejected by this layer: the duration is handed to the engine and a
\* following heartbeat_ttl() returns Some(d).
C6_TtlWithinMaxAccepted ==
    [][\A d \in TtlValues :
         (IsSome(d) /\ Unwrap(d) <= MAX_HB_TTL
            /\ sock[TheSock].ctx \notin terminated /\ SetHeartbeatTtl(d)) =>
           /\ last'.res.kind.tag # "InvalidInput"
           /\ calls' = <<Call("zmq_setsockopt", "heartbeat_ttl", Unwrap(d))>>
           /\ heartbeat_ttl(sock'[TheSock], EnvNow).value = d]_vars

----------------------------------------------------------------------------
(* Properties of apply and build.                                          *)

ApplyOps == {"apply", "build"}

IsOption(c, opt) == c.fn = "zmq_setsockopt" /\ c.arg = opt

\* the place of an engine call in the order of SocketConfig::apply and of
\* the builders of socket.rs
Class(c) ==
    CASE c.fn = "zmq_socket" -> 0
      [] c.fn = "zmq_connect" -> 1
      [] c.fn = "zmq_bind" -> 2
      [] IsOption(c, "backlog") -> 3
      [] IsOption(c, "connect_timeout") -> 4
      [] c.fn = "zmq_close" -> 6
      [] OTHER -> 5

\* the place of an engine call in the order of the layered ClientConfig
LayeredClass(c) ==
    CASE c.fn = "zmq_socket" -> 0
      [] IsOption(c, "send_hwm") -> 1
      [] IsOption(c, "recv_hwm") -> 2
      [] IsOption(c, "heartbeat_interval") -> 3
      [] c.fn = "zmq_connect" -> 4
      [] c.fn = "zmq_bind" -> 5
      [] OTHER -> 6

Ordered(cs, K(_)) ==
    \A i \in 1..Len(cs), j \in 1..Len(cs) : i < j => K(cs[i]) <= K(cs[j])

\* the arguments of the calls of fn, in the order they were made
ArgsOf(cs, fn) ==
    LET sel == SelectSeq(cs, LAMBDA c : c.fn = fn) IN
    [i \in 1..Len(sel) |-> sel[i].arg]

\* a is a prefix of the list held by the optional field f
PrefixOf(a, f) ==
    IF IsSome(f)
    THEN Len(a) <= Len(Unwrap(f)) /\ a = SubSeq(Unwrap(f), 1, Len(a))
    ELSE a = <<>>

InListOrder ==
    /\ PrefixOf(ArgsOf(calls, "zmq_connect"), cfg.connect)
    /\ PrefixOf(ArgsOf(calls, "zmq_bind"), cfg.bind)

\* C7, as stated: apply and build issue their engine calls in one fixed
\* order for every configuration: the connects in list order, the binds in
\* list order, backlog, connect timeout, then the role-specific fields; no
\* option or bind call precedes a connect call of the same apply.
C7_OneFixedOrder ==
    last.op \in ApplyOps => Ordered(calls, Class) /\ InListOrder

\* C7, amended: the configurations of socket.rs issue connects, binds,
\* backlog, connect timeout, then Radio no-drop or Dish joins; the layered
\* ClientConfig issues its send, receive and heartbeat options first and its
\* connects and binds last.  Connects and binds are in list order in both.
C7_OrderByConfiguration ==
    last.op \in ApplyOps =>
      /\ InListOrder
      /\ cfg.kind \in Roles => Ordered(calls, Class)
      /\ cfg.kind = "LayeredClient" => Ordered(calls, LayeredClass)

C7_Witness ==
    /\ last.op = "build" /\ IsOk(last.res)
    /\ cfg.kind = "LayeredClient"
    /\ Len(calls) = 4
    /\ IsOption(calls[2], "send_hwm")
    /\ calls[3].fn = "zmq_connect" /\ calls[3].arg = "e2"
    /\ calls[4].fn = "zmq_connect" /\ calls[4].arg = "e1"

SharedOptions ==
    {"backlog", "connect_timeout", "heartbeat_interval",
     "heartbeat_timeout", "heartbeat_ttl"}

\* C8: for every field of the configuration that is unset, apply makes no
\* engine call for that option and leaves the socket's value of it as it
\* was; an unset connect timeout leaves a timeout set before unchanged.
C8_UnsetFieldsUntouched ==
    [][(cfg.kind \in Roles /\ Apply) =>
         /\ \A opt \in SharedOptions :
              cfg[opt] = None =>
                /\ \A i \in 1..Len(calls') : ~IsOption(calls'[i], opt)
                /\ sock'[TheSock].opt[opt] = sock[TheSock].opt[opt]
         /\ cfg.connect = None => ArgsOf(calls', "zmq_connect") = <<>>
         /\ cfg.bind = None => ArgsOf(calls', "zmq_bind") = <<>>]_vars

\* what the getter of a shared option returns on socket S
Getter(S, opt) ==
    CASE opt = "backlog" -> Some(backlog(S, EnvNow).value)
      [] opt = "connect_timeout" -> connect_timeout(S, EnvNow).value
      [] opt = "heartbeat_interval" -> heartbeat_interval(S, EnvNow).value
      [] opt = "heartbeat_timeout" -> heartbeat_timeout(S, EnvNow).value
      [] opt = "heartbeat_ttl" -> heartbeat_ttl(S, EnvNow).value

\* C9: every field that is set is pushed onto the socket: after build
\* succeeds, the getter of each set field (heartbeat interval, timeout, TTL,
\* backlog, connect timeout) returns the configured value.
C9_SetFieldsPushed ==
    (last.op = "build" /\ IsOk(last.res) /\ cfg.kind \in Roles) =>
      \A opt \in SharedOptions :
        IsSome(cfg[opt]) => Getter(sock[TheSock], opt) = cfg[opt]

\* the engine around a fresh socket of a live context
EnvFresh == [term |-> FALSE, sig |-> FALSE, inuse |-> {}, full |-> FALSE]

\* the live socket is as one apply of the configuration leaves a fresh one
OnceApplied ==
    /\ Open(TheSock)
    /\ sock[TheSock] =
         Apply_of(FreshSocket(sock[TheSock].role, sock[TheSock].ctx),
                  EnvFresh, cfg).S

\* C10: apply is idempotent: applying a configuration a second time to a
\* socket that was fresh leaves the option state and the connected and bound
\* endpoint sets as the first application left them.
C10_ApplyIdempotent ==
    [][(last.op = "apply" /\ OnceApplied) =>
         \/ /\ sock'[TheSock].opt = sock[TheSock].opt
            /\ sock'[TheSock].connected = sock[TheSock].connected
            /\ sock'[TheSock].bound = sock[TheSock].bound
         \/ ~Apply]_vars

C10_Witness ==
    /\ last.op = "apply" /\ last.res.kind.tag = "AddrInUse"
    /\ cfg.bind = Some(<<"e1">>) /\ cfg.connect = Some(<<"e2">>)
    /\ IsSome(cfg.backlog)
    /\ OnceApplied

----------------------------------------------------------------------------
(* Properties of the builders.                                             *)

\* the engine calls of a list of endpoints or groups, in list order
CallsOf(fn, f) ==
    IF IsSome(f)
    THEN [i \in 1..Len(Unwrap(f)) |-> Call(fn, Unwrap(f)[i], 0)]
    ELSE <<>>

\* the engine call that sets an option, when the field holds a value
OptionCall(opt, f) ==
    IF IsSome(f) THEN <<Call("zmq_setsockopt", opt, Unwrap(f))>> ELSE <<>>

\* every engine call of a build of config on which each step succeeds
StepsOf(config) ==
    <<Call("zmq_socket", RoleOf(config.kind), 0)>> \o
    IF config.kind = "LayeredClient"
    THEN OptionCall("send_hwm", config.send_hwm)
           \o OptionCall("recv_hwm", config.recv_hwm)
           \o OptionCall("heartbeat_interval", config.heartbeat)
           \o CallsOf("zmq_connect", config.connect)
           \o CallsOf("zmq_bind", config.bind)
    ELSE CallsOf("zmq_connect", config.connect)
           \o CallsOf("zmq_bind", config.bind)
           \o OptionCall("backlog", config.backlog)
           \o <<Call("zmq_setsockopt", "connect_timeout",
                     IF IsSome(config.connect_timeout)
                     THEN Unwrap(config.connect_timeout) ELSE -1)>>
           \o (IF config.kind = "Radio" /\ IsSome(config.no_drop)
               THEN <<Call("zmq_setsockopt", "no_drop",
                           IF Unwrap(config.no_drop) THEN 1 ELSE 0)>>
               ELSE <<>>)
           \o (IF config.kind = "Dish"
               THEN CallsOf("zmq_join", config.groups) ELSE <<>>)

\* C11: build is all-or-nothing: it returns a socket on which every
\* configured step was made and succeeded, or the first error; after a step
\* fails no later step is made, no socket is returned and the socket opened
\* for the build is closed.
C11_BuildAllOrNothing ==
    last.op = "build" =>
      IF IsOk(last.res)
      THEN Open(TheSock) /\ calls = StepsOf(cfg)
      ELSE /\ ~Open(TheSock)
           /\ \/ /\ calls = SubSeq(StepsOf(cfg), 1, 1)
                 /\ sock[TheSock].state = "none"
              \/ /\ sock[TheSock].state = "closed"
                 /\ \E k \in 2..Len(StepsOf(cfg)) :
                      calls = SubSeq(StepsOf(cfg), 1, k)
                                \o <<Call("zmq_close", Nil, 0)>>

C11_Witness ==
    /\ last.op = "build" /\ last.res.kind.tag = "AddrInUse"
    /\ cfg.bind = Some(<<"e1", "e1">>) /\ IsSome(cfg.backlog)
    /\ sock[TheSock].state = "closed"
    /\ calls = <<Call("zmq_socket", "Server", 0), Call("zmq_bind", "e1", 0),
                 Call("zmq_bind", "e1", 0), Call("zmq_close", Nil, 0)>>

\* C12: a configuration is applied atomically to a live socket: when apply
\* returns an error, the socket's connected endpoints, bound endpoints and
\* option values are the same as before the call.
C12_ApplyAtomic ==
    [][(last'.op = "apply" /\ IsErr(last'.res)) =>
         \/ /\ sock'[TheSock].connected = sock[TheSock].connected
            /\ sock'[TheSock].bound = sock[TheSock].bound
            /\ sock'[TheSock].opt = sock[TheSock].opt
         \/ ~Apply]_vars

----------------------------------------------------------------------------
(* The flat persisted form of the layered ClientConfig (socket/client.rs). *)

\* a variant of the flattening that stores each water mark under the key of
\* the other direction
FlatClientConfig_from_swapped(config) ==
    [connect |-> config.socket_config.connect,
     bind |-> config.socket_config.bind,
     heartbeat |-> config.heartbeat_config.heartbeat,
     mechanism |-> config.socket_config.mechanism,
     send_hwm |-> config.recv_config.recv_hwm,
     send_timeout |-> config.send_config.send_timeout,
     recv_hwm |-> config.send_config.send_hwm,
     recv_timeout |-> config.recv_config.recv_timeout]

\* impl From<ClientConfig> for FlatClientConfig
FlatClientConfig_from(config) ==
    [connect |-> config.socket_config.connect,
     bind |-> config.socket_config.bind,
     heartbeat |-> config.heartbeat_config.heartbeat,
     mechanism |-> config.socket_config.mechanism,
     send_hwm |-> config.send_config.send_hwm,
     send_timeout |-> config.send_config.send_timeout,
     recv_hwm |-> config.recv_config.recv_hwm,
     recv_timeout |-> config.recv_config.recv_timeout]

\* impl From<FlatClientConfig> for ClientConfig
ClientConfig_from(flat) ==
    [socket_config |-> [connect |-> flat.connect, bind |-> flat.bind,
                        mechanism |-> flat.mechanism],
     send_config |-> [send_hwm |-> flat.send_hwm,
                      send_timeout |-> flat.send_timeout],
     recv_config |-> [recv_hwm |-> flat.recv_hwm,
                      recv_timeout |-> flat.recv_timeout],
     heartbeat_config |-> [heartbeat |-> flat.heartbeat]]

\* the values of the fields of the configurations converted
FlatConnects == {None, Some(<<"e1">>), Some(<<"e2", "e1">>)}
FlatBinds == {None, Some(<<"e2">>)}
Mechanisms == {None, Some("PlainClient")}
Heartbeats == {None, Some([interval |-> 1000, timeout |-> 3000, ttl |-> 0])}
SendMarks == {None, Some(10)}
RecvMarks == {None, Some(20)}
SendPeriods == {None, Some(100)}
RecvPeriods == {None, Some(200)}

\* the ClientConfig values: struct ClientConfig { socket_config,
\* send_config, recv_config, heartbeat_config }
ClientConfigs ==
    [socket_config : [connect : FlatConnects, bind : FlatBinds,
                      mechanism : Mechanisms],
     send_config : [send_hwm : SendMarks, send_timeout : SendPeriods],
     recv_config : [recv_hwm : RecvMarks, recv_timeout : RecvPeriods],
     heartbeat_config : [heartbeat : Heartbeats]]

\* a configuration, its flat record, the configuration read back from the
\* record, and the flat record of that one
InitFlat ==
    /\ sock = [s \in Socks |-> NoSocket]
    /\ terminated = {}
    /\ pending = [t \in Threads |-> None]
    /\ \E config \in ClientConfigs :
         cfg = [config |-> config, flat |-> None, restored |-> None,
                again |-> None]
    /\ phase = "layered"
    /\ last = Step("init", Nil, Nil, Ok)
    /\ calls = <<>>

\* serialization: FlatClientConfig::from(config)  (serde(into))
IntoFlat ==
    /\ phase = "layered"
    /\ cfg' = [cfg EXCEPT !.flat = Some(FlatClientConfig_from(cfg.config))]
    /\ phase' = "flat"
    /\ last' = Step("into_flat", Nil, Nil, Ok)
    /\ UNCHANGED <<sock, terminated, pending, calls>>

\* deserialization: ClientConfig::from(flat)  (serde(from))
FromFlat ==
    /\ phase = "flat"
    /\ cfg' = [cfg EXCEPT !.restored = Some(ClientConfig_from(Unwrap(cfg.flat)))]
    /\ phase' = "restored"
    /\ last' = Step("from_flat", Nil, Nil, Ok)
    /\ UNCHANGED <<sock, terminated, pending, calls>>

\* serialization of the configuration read back
IntoFlatAgain ==
    /\ phase = "restored"
    /\ cfg' = [cfg EXCEPT
                 !.again = Some(FlatClientConfig_from(Unwrap(cfg.restored)))]
    /\ phase' = "again"
    /\ last' = Step("into_flat", Nil, Nil, Ok)
    /\ UNCHANGED <<sock, terminated, pending, calls>>

NextFlat == IntoFlat \/ FromFlat \/ IntoFlatAgain

SpecFlat == InitFlat /\ [][NextFlat]_vars

\* C13: converting a ClientConfig to the flat record and back yields a
\* configuration equal to it, flattening the result again reproduces the flat
\* record, and every key of the flat record holds the field of its layer.
C13_ConfigRoundTrip ==
    /\ IsSome(cfg.flat) =>
         LET flat == Unwrap(cfg.flat) IN
         /\ flat.connect = cfg.config.socket_config.connect
         /\ flat.bind = cfg.config.socket_config.bind
         /\ flat.mechanism = cfg.config.socket_config.mechanism
         /\ flat.send_hwm = cfg.config.send_config.send_hwm
         /\ flat.send_timeout = cfg.config.send_config.send_timeout
         /\ flat.recv_hwm = cfg.config.recv_config.recv_hwm
         /\ flat.recv_timeout = cfg.config.recv_config.recv_timeout
         /\ flat.heartbeat = cfg.config.heartbeat_config.heartbeat
    /\ IsSome(cfg.restored) => Unwrap(cfg.restored) = cfg.config
    /\ IsSome(cfg.again) => cfg.again = cfg.flat

C13_Witness ==
    /\ phase = "again"
    /\ cfg.config.socket_config.connect = Some(<<"e2", "e1">>)
    /\ cfg.config.send_config.send_hwm = Some(10)
    /\ cfg.config.recv_config.recv_hwm = None
    /\ Unwrap(cfg.restored) = cfg.config
    /\ Unwrap(cfg.again).send_hwm = Some(10)

----------------------------------------------------------------------------
(* The state machine of the high water marks.                              *)

HwmValues == {None, Some(0), Some(10), Some(2000)}

SetSendHwm(limit) ==
    /\ Usable /\ sock[TheSock].role \in SendRoles
    /\ \E r \in {set_send_high_water_mark(sock[TheSock], EnvNow, limit)} :
         Set("set_send_high_water_mark", limit, r)

GetSendHwm ==
    /\ Usable /\ sock[TheSock].role \in SendRoles
    /\ \E r \in {send_high_water_mark(sock[TheSock], EnvNow)} :
         Get("send_high_water_mark", r.value, r)

SetRecvHwm(limit) ==
    /\ Usable /\ sock[TheSock].role \in RecvRoles
    /\ \E r \in {set_recv_high_water_mark(sock[TheSock], EnvNow, limit)} :
         Set("set_recv_high_water_mark", limit, r)

GetRecvHwm ==
    /\ Usable /\ sock[TheSock].role \in RecvRoles
    /\ \E r \in {recv_high_water_mark(sock[TheSock], EnvNow)} :
         Get("recv_high_water_mark", r.value, r)

NextHwm ==
    \/ \E t \in Threads, role \in Roles, c \in Ctxs : New(t, TheSock, role, c)
    \/ \E t \in Threads : Close(t, TheSock)
    \/ \E c \in Ctxs : Terminate(c)
    \/ \E limit \in HwmValues : SetSendHwm(limit)
    \/ GetSendHwm
    \/ \E limit \in HwmValues : SetRecvHwm(limit)
    \/ GetRecvHwm

SpecHwm == Init /\ [][NextHwm]_vars

HwmGetters == {"send_high_water_mark", "recv_high_water_mark"}
HwmSetters == {"set_send_high_water_mark", "set_recv_high_water_mark"}

\* the getter of the side a setter sets
GetterOf(op) ==
    IF op = "set_send_high_water_mark" THEN "send_high_water_mark"
    ELSE "recv_high_water_mark"

\* C14: on the send and on the receive side, the getter called after a
\* successful set_*_high_water_mark(None) returns None, after a successful
\* set_*_high_water_mark(Some(n)), n # 0, returns Some(n), and it never
\* returns Some(0).
C14_HwmSentinel ==
    [][/\ (last'.op \in HwmGetters /\ IsOk(last'.res)) =>
            last'.val # Some(0)
       /\ (/\ last.op \in HwmSetters /\ IsOk(last.res)
           /\ last'.op = GetterOf(last.op) /\ IsOk(last'.res)) =>
            /\ last.val # Some(0)
            /\ last'.val = last.val]_vars

C14_Witness ==
    /\ last.op = "recv_high_water_mark" /\ IsOk(last.res)
    /\ last.val = None
    /\ sock[TheSock].opt.recv_hwm = 0
    /\ sock[TheSock].opt.send_hwm = 2000

\* C15: set_send_high_water_mark(Some(0)) and
\* set_recv_high_water_mark(Some(0)) fail fatally before any engine call
\* and leave the socket as it was; the engine is handed the value zero only
\* for None.
C15_ZeroLimitRejected ==
    [][last'.op \in HwmSetters =>
         /\ last'.val = Some(0) =>
              IsPanic(last'.res) /\ calls' = <<>> /\ sock' = sock
         /\ (\E i \in 1..Len(calls') : calls'[i].val = 0) =>
              last'.val = None]_vars

C15_Witness ==
    /\ last.op = "set_send_high_water_mark" /\ last.val = Some(0)
    /\ IsPanic(last.res) /\ calls = <<>>
    /\ sock[TheSock].opt.send_hwm = 10

----------------------------------------------------------------------------
(* Properties of the Dish groups.                                          *)

GroupCall ==
    \E t \in Threads, s \in Socks, g \in GroupNames :
      Join(t, s, g) \/ Leave(t, s, g)

\* C16: join(g) succeeds only if g has at most 15 characters and is not
\* joined, and then g is joined; leave(g) succeeds only if g is joined, and
\* then it is not; joining a joined group, leaving a group that is not
\* joined and joining a longer name return InvalidInput as an error value
\* (on a context that is not terminated); a failed call leaves the set of
\* joined groups unchanged.
C16_GroupContract ==
    [][last'.op \in {"join", "leave"} =>
         \/ LET s == last'.sock
                g == last'.arg
                res == last'.res
                joined == sock[s].groups
                after == sock'[s].groups
                live == sock[s].ctx \notin terminated
            IN  /\ ~IsOk(res) => IsErr(res) /\ after = joined
                /\ last'.op = "join" =>
                     /\ IsOk(res) =>
                          /\ Len(g) <= ZMQ_GROUP_MAX_LENGTH
                          /\ g \notin joined
                          /\ after = joined \cup {g}
                     /\ (live /\ (g \in joined
                                    \/ Len(g) > ZMQ_GROUP_MAX_LENGTH)) =>
                          res.kind.tag = "InvalidInput"
                /\ last'.op = "leave" =>
                     /\ IsOk(res) => g \in joined /\ after = joined \ {g}
                     /\ (live /\ g \notin joined) =>
                          res.kind.tag = "InvalidInput"
         \/ ~GroupCall]_vars

C16_Witness ==
    /\ last.op = "join" /\ last.arg = "g1"
    /\ last.res.kind.tag = "InvalidInput"
    /\ sock[last.sock].groups = {"g1", "g2"}

----------------------------------------------------------------------------
(* Properties of the roles.                                                *)

\* C17: every socket has one of the four roles; on a socket of any role a
\* thread can call connect and bind; it can call send and send_poll exactly
\* on a Client, a Server and a Radio, and recv and recv_poll exactly on a
\* Client, a Server and a Dish.
C17_CapabilityMatrix ==
    \A t \in Threads, s \in Socks :
      (Idle(t) /\ Open(s)) =>
        /\ sock[s].role \in {"Client", "Server", "Radio", "Dish"}
        /\ ENABLED (\E e \in Endpoints : Connect(t, s, e))
        /\ ENABLED (\E e \in Endpoints : Bind(t, s, e))
        /\ (ENABLED (\E m \in Msgs : SendPoll(t, s, m)))
             <=> sock[s].role \in {"Client", "Server", "Radio"}
        /\ (ENABLED (\E m \in Msgs : Send(t, s, m, FALSE)))
             <=> sock[s].role \in {"Client", "Server", "Radio"}
        /\ (ENABLED RecvPoll(t, s))
             <=> sock[s].role \in {"Client", "Server", "Dish"}
        /\ (ENABLED Recv(t, s, FALSE))
             <=> sock[s].role \in {"Client", "Server", "Dish"}

C17_Witness ==
    /\ Open(TheSock) /\ sock[TheSock].role = "Radio"
    /\ last.op = "send_poll" /\ last.sock = TheSock /\ IsOk(last.res)
    /\ Idle("t1")
    /\ ~ENABLED RecvPoll("t1", TheSock)

----------------------------------------------------------------------------
(* A Server and a Client of one process: the request-reply example of the  *)
(* Server documentation (socket.rs 1240-1267).  phase is the statement the *)
(* program is at; cfg holds its local values: the payloads it uses, the    *)
(* routing id it was given, the payloads the client has received.          *)

PairSocks == {"client", "server"}

\* the identity the engine gives the connection of the client
ClientIdentity == CHOOSE r \in RoutingIds : TRUE

\* the engine around a socket of the pair
EnvPair(s, sig) ==
    [term |-> sock[s].ctx \in terminated, sig |-> sig, inuse |-> {},
     full |-> FALSE]

\* client.connect(&endpoint)?; server.bind(endpoint)?;
InitPair ==
    /\ \E c \in Ctxs :
         sock = [s \in PairSocks |->
                   IF s = "client"
                   THEN connect(FreshSocket("Client", c), EnvFresh, "e1").S
                   ELSE bind(FreshSocket("Server", c), EnvFresh, "e1").S]
    /\ terminated = {}
    /\ pending = [t \in Threads |-> None]
    /\ \E request \in Payloads, reply1 \in Payloads, reply2 \in Payloads :
         cfg = [request |-> request, reply1 |-> reply1, reply2 |-> reply2,
                routing_id |-> Nil, received |-> <<>>]
    /\ phase = "request"
    /\ last = Step("init", Nil, Nil, Ok)
    /\ calls = <<>>

\* a blocking send of the example: it returns once the engine answers; on
\* an error the program calls again, on success it goes on to the statement
\* next
PairSend(at, s, msg, next, sig) ==
    /\ Running /\ phase = at
    /\ \E r \in {send(sock[s], EnvPair(s, sig), msg, FALSE)} :
         /\ ~r.blocks
         /\ ReturnMsg("send", s, msg, r)
         /\ phase' = IF IsOk(r.res) THEN next ELSE at
    /\ UNCHANGED <<terminated, pending, cfg>>

\* client.send("request")?;
ClientSend(sig) ==
    PairSend("request", "client", Msg_from(cfg.request), "serve", sig)

\* let msg = server.recv_msg()?; let routing_id = msg.routing_id()
ServerRecv(sig) ==
    /\ Running /\ phase = "serve"
    /\ \E r \in {recv(sock["server"], EnvPair("server", sig), Msg_new, FALSE)} :
         /\ ~r.blocks
         /\ ReturnMsg("recv", "server", r.msg, r)
         /\ IF IsOk(r.res)
            THEN /\ cfg' = [cfg EXCEPT !.routing_id = r.msg.routing_id]
                 /\ phase' = "reply1"
            ELSE UNCHANGED <<cfg, phase>>
    /\ UNCHANGED <<terminated, pending>>

\* let mut msg: Msg = "reply 1".into(); msg.set_routing_id(routing_id);
\* server.send(msg)?;
ServerSend1(sig) ==
    PairSend("reply1", "server",
             [Msg_from(cfg.reply1) EXCEPT !.routing_id = cfg.routing_id],
             "reply2", sig)

\* the same for "reply 2"
ServerSend2(sig) ==
    PairSend("reply2", "server",
             [Msg_from(cfg.reply2) EXCEPT !.routing_id = cfg.routing_id],
             "receive", sig)

\* let mut msg = client.recv_msg()?;  client.recv(&mut msg)?;
ClientRecv(sig) ==
    /\ Running /\ phase = "receive"
    /\ \E r \in {recv(sock["client"], EnvPair("client", sig), Msg_new, FALSE)} :
         /\ ~r.blocks
         /\ ReturnMsg("recv", "client", r.msg, r)
         /\ IF IsOk(r.res)
            THEN /\ cfg' = [cfg EXCEPT !.received = Append(@, r.msg.data)]
                 /\ phase' = IF Len(cfg.received) = 1 THEN "received"
                             ELSE "receive"
            ELSE UNCHANGED <<cfg, phase>>
    /\ UNCHANGED <<terminated, pending>>

\* a last client.recv_msg_poll() after the two replies
ClientRecvPoll ==
    /\ Running /\ phase = "received"
    /\ \E r \in {recv(sock["client"], EnvPair("client", FALSE), Msg_new, TRUE)} :
         /\ ReturnMsg("recv_poll", "client", r.msg, r)
         /\ cfg' = IF IsOk(r.res)
                   THEN [cfg EXCEPT !.received = Append(@, r.msg.data)]
                   ELSE cfg
    /\ phase' = "end"
    /\ UNCHANGED <<terminated, pending>>

\* the engine carries the head of the client's outbound queue to the server:
\* the message arrives with the identity of the client's connection
CarryToServer ==
    /\ Running
    /\ sock["client"].outq # <<>>
    /\ Len(sock["server"].inq) < MaxQueue
    /\ sock' = [sock EXCEPT
         !["client"].outq = Tail(@),
         !["server"].inq =
            Append(@, [Head(sock["client"].outq)
                         EXCEPT !.routing_id = ClientIdentity]),
         !["server"].peers = @ \cup {ClientIdentity}]
    /\ UNCHANGED <<terminated, pending, cfg, phase, last, calls>>

\* the engine carries the head of the server's outbound queue to the client
\* it is routed to; the routing id is discarded
CarryToClient ==
    /\ Running
    /\ sock["server"].outq # <<>>
    /\ Head(sock["server"].outq).routing_id = ClientIdentity
    /\ Len(sock["client"].inq) < MaxQueue
    /\ sock' = [sock EXCEPT
         !["server"].outq = Tail(@),
         !["client"].inq =
            Append(@, [Head(sock["server"].outq) EXCEPT !.routing_id = Nil])]
    /\ UNCHANGED <<terminated, pending, cfg, phase, last, calls>>

NextPair ==
    \/ \E sig \in BOOLEAN : ClientSend(sig)
    \/ \E sig \in BOOLEAN : ServerRecv(sig)
    \/ \E sig \in BOOLEAN : ServerSend1(sig)
    \/ \E sig \in BOOLEAN : ServerSend2(sig)
    \/ \E sig \in BOOLEAN : ClientRecv(sig)
    \/ ClientRecvPoll
    \/ CarryToServer
    \/ CarryToClient

SpecPair == InitPair /\ [][NextPair]_vars

\* the program and the engine go on while they can
LivePair == SpecPair /\ WF_vars(NextPair)

----------------------------------------------------------------------------
(* A Radio and a Dish of one process: the example of the Radio            *)
(* documentation (socket.rs 1605-1643) with no-drop disabled and one Dish  *)
(* that connects and joins late.  cfg holds the program's local values:    *)
(* the group of the messages, the group the Dish joins, the payloads sent  *)
(* before and after the join, the payloads the Dish has received.  connect *)
(* and join return before the engine has completed them ("`connect` takes  *)
(* a few milliseconds, enough for the `Radio` to drop a few messages").    *)

CastSocks == {"radio", "dish"}

\* the groups a Radio knows of once the connection of the Dish is up
Subscribed(radio, dish) ==
    [radio EXCEPT !.groups = IF dish.connected \cap radio.bound # {}
                             THEN dish.groups ELSE {}]

\* let radio = Radio::new()?; let dish = Dish::new()?;
InitCast ==
    /\ \E c \in Ctxs :
         sock = [s \in CastSocks |->
                   IF s = "radio" THEN FreshSocket("Radio", c)
                   ELSE FreshSocket("Dish", c)]
    /\ terminated = {}
    /\ pending = [t \in Threads |-> None]
    /\ \E group \in Groups, joined \in Groups,
          early \in Payloads, late \in Payloads :
         cfg = [group |-> group, joined |-> joined, early |-> early,
                late |-> late, received |-> <<>>]
    /\ phase = "no_drop"
    /\ last = Step("init", Nil, Nil, Ok)
    /\ calls = <<>>

\* radio.set_no_drop(false)?;
CastNoDrop ==
    /\ Running /\ phase = "no_drop"
    /\ \E r \in {set_no_drop(sock["radio"], EnvPair("radio", FALSE), FALSE)} :
         /\ Return("set_no_drop", "radio", "false", r)
         /\ phase' = IF IsOk(r.res) THEN "bind" ELSE "no_drop"
    /\ UNCHANGED <<terminated, pending, cfg>>

\* radio.bind(&addr)?;
CastBind ==
    /\ Running /\ phase = "bind"
    /\ \E r \in {bind(sock["radio"], EnvPair("radio", FALSE), "e1")} :
         /\ Return("bind", "radio", "e1", r)
         /\ phase' = IF IsOk(r.res) THEN "early" ELSE "bind"
    /\ UNCHANGED <<terminated, pending, cfg>>

\* let mut msg: Msg = payload.into(); msg.set_group(group); radio.send(msg)?;
\* or radio.send_poll(msg)?;
CastSend(at, payload, next, no_block) ==
    /\ Running /\ phase = at
    /\ \E r \in {send(sock["radio"], EnvPair("radio", FALSE),
                      [Msg_from(payload) EXCEPT !.group = cfg.group],
                      no_block)} :
         /\ ~r.blocks
         /\ ReturnMsg(IF no_block THEN "send_poll" ELSE "send", "radio",
                      [Msg_from(payload) EXCEPT !.group = cfg.group], r)
         /\ phase' = IF IsOk(r.res) THEN next ELSE at
    /\ UNCHANGED <<terminated, pending, cfg>>

\* a message sent before the Dish has connected
CastSendEarly(no_block) == CastSend("early", cfg.early, "connect", no_block)

\* dish.connect(&addr)?;
CastConnect ==
    /\ Running /\ phase = "connect"
    /\ \E r \in {connect(sock["dish"], EnvPair("dish", FALSE), "e1")} :
         /\ Return("connect", "dish", "e1", r)
         /\ phase' = IF IsOk(r.res) THEN "unjoined" ELSE "connect"
    /\ UNCHANGED <<terminated, pending, cfg>>

\* a message sent once the Dish has connected, before it joins
CastSendUnjoined(no_block) ==
    CastSend("unjoined", cfg.early, "join", no_block)

\* dish.join(group)?;
CastJoin ==
    /\ Running /\ phase = "join"
    /\ \E r \in {join(sock["dish"], EnvPair("dish", FALSE), cfg.joined)} :
         /\ Return("join", "dish", cfg.joined, r)
         /\ phase' = IF IsOk(r.res) THEN "late" ELSE "join"
    /\ UNCHANGED <<terminated, pending, cfg>>

\* a message sent after the Dish has joined
CastSendLate(no_block) == CastSend("late", cfg.late, "receive", no_block)

\* let msg = dish.recv_msg()?;
CastRecv(sig) ==
    /\ Running /\ phase = "receive"
    /\ \E r \in {recv(sock["dish"], EnvPair("dish", sig), Msg_new, FALSE)} :
         /\ ~r.blocks
         /\ ReturnMsg("recv", "dish", r.msg, r)
         /\ IF IsOk(r.res)
            THEN /\ cfg' = [cfg EXCEPT !.received = Append(@, r.msg.data)]
                 /\ phase' = "received"
            ELSE UNCHANGED <<cfg, phase>>
    /\ UNCHANGED <<terminated, pending>>

\* let err = dish.recv_poll(&mut msg).unwrap_err();
CastRecvPoll ==
    /\ Running /\ phase = "received"
    /\ \E r \in {recv(sock["dish"], EnvPair("dish", FALSE), Msg_new, TRUE)} :
         /\ ReturnMsg("recv_poll", "dish", r.msg, r)
         /\ cfg' = IF IsOk(r.res)
                   THEN [cfg EXCEPT !.received = Append(@, r.msg.data)]
                   ELSE cfg
    /\ phase' = "end"
    /\ UNCHANGED <<terminated, pending>>

\* the engine completes the connection of the Dish: the Radio learns the
\* groups the Dish has joined
Attach ==
    /\ Running
    /\ sock["radio"] # Subscribed(sock["radio"], sock["dish"])
    /\ sock' = [sock EXCEPT !["radio"] = Subscribed(@, sock["dish"])]
    /\ UNCHANGED <<terminated, pending, cfg, phase, last, calls>>

\* the engine carries the head of the Radio's outbound queue to the Dish
\* connected to it, if the Dish has joined the message's group, and
\* discards it otherwise
CarryToDish ==
    /\ Running
    /\ sock["radio"].outq # <<>>
    /\ Len(sock["dish"].inq) < MaxQueue
    /\ sock' = [sock EXCEPT
         !["radio"].outq = Tail(@),
         !["dish"].inq =
            IF /\ sock["dish"].connected \cap sock["radio"].bound # {}
               /\ Head(sock["radio"].outq).group \in sock["dish"].groups
            THEN Append(@, Head(sock["radio"].outq)) ELSE @]
    /\ UNCHANGED <<terminated, pending, cfg, phase, last, calls>>

NextCast ==
    \/ CastNoDrop
    \/ CastBind
    \/ \E no_block \in BOOLEAN : CastSendEarly(no_block)
    \/ CastConnect
    \/ \E no_block \in BOOLEAN : CastSendUnjoined(no_block)
    \/ CastJoin
    \/ \E no_block \in BOOLEAN : CastSendLate(no_block)
    \/ \E sig \in BOOLEAN : CastRecv(sig)
    \/ CastRecvPoll
    \/ Attach
    \/ CarryToDish

SpecCast == InitCast /\ [][NextCast]_vars

\* the program and the engine go on while they can
LiveCast == SpecCast /\ WF_vars(NextCast)

----------------------------------------------------------------------------
(* Receive calls that fail.                                                *)

RecvOps == {"recv", "recv_poll"}

\* a recv, recv_msg, recv_poll or recv_msg_poll returns to its caller
RecvReturns ==
    /\ \E t \in Threads :
         \/ \E s \in Socks, sig \in BOOLEAN : Recv(t, s, sig)
         \/ \E s \in Socks : RecvPoll(t, s)
         \/ \E sig \in BOOLEAN : RecvWake(t, sig)
    /\ last'.res # Blocked

----------------------------------------------------------------------------
(* The non-blocking calls.                                                 *)

PollOps == {"send_poll", "recv_poll"}

\* a send_poll or a recv_poll is made
PollStep ==
    \E t \in Threads, s \in Socks :
       \/ \E m \in Msgs : SendPoll(t, s, m)
       \/ RecvPoll(t, s)

\* a blocking send of msg on S would have to wait: the socket is in mute
\* state, its context is live, the message is routable, and S is not a
\* Radio that drops
SendWaits(S, msg) ==
    /\ Mute(S)
    /\ S.ctx \notin terminated
    /\ S.role = "Server" => msg.routing_id \in S.peers
    /\ S.role = "Radio" => S.opt.no_drop = 1 /\ msg.group \in S.groups

\* C21: the non-blocking variants never suspend the caller: a send_poll or
\* recv_poll step leaves no call pending; a send_poll on a socket in mute
\* state returns WouldBlock with the message handed back and nothing queued,
\* and a recv_poll on an empty inbound queue returns WouldBlock.
C21_PollNeverSuspends ==
    [][(last'.op \in PollOps) =>
          \/ /\ last'.res # Blocked
             /\ pending' = pending
             /\ (last'.op = "send_poll"
                   /\ SendWaits(sock[last'.sock], last'.msg)) =>
                  /\ last'.res.kind.tag = "WouldBlock"
                  /\ last'.res.content = Some(last'.msg)
                  /\ sock' = sock
             /\ (last'.op = "recv_poll" /\ sock[last'.sock].inq = <<>>
                   /\ sock[last'.sock].ctx \notin terminated) =>
                  /\ last'.res.kind.tag = "WouldBlock"
                  /\ sock' = sock
          \/ ~PollStep]_vars

C21_Witness ==
    /\ last.op = "send_poll"
    /\ last.res.kind.tag = "WouldBlock"
    /\ last.res.content = Some(last.msg)
    /\ sock[last.sock].role = "Client"
    /\ Len(sock[last.sock].outq) = MaxQueue
    /\ pending = [t \in Threads |-> None]

----------------------------------------------------------------------------
(* The blocking send of a Client or Server.                                *)

\* a blocking send is called, or a blocked one returns
SendStep ==
    \E t \in Threads :
       \/ \E s \in Socks, m \in Msgs, sig \in BOOLEAN : Send(t, s, m, sig)
       \/ \E sig \in BOOLEAN : SendWake(t, sig)

\* the blocked call of thread t returns in this step
Wakes(t) == IsSome(pending[t]) /\ pending'[t] = None

----------------------------------------------------------------------------
(* Routing on a Server.                                                    *)

\* a send or send_poll is called, or a blocked send returns
SendCall ==
    \/ SendStep
    \/ \E t \in Threads, s \in Socks, m \in Msgs : SendPoll(t, s, m)

\* C23: a send or send_poll on a Server of a message without routing id, or
\* with a routing id that is not one of the currently connected clients,
\* fails with HostUnreachable and hands the message back; the call does not
\* block and nothing is queued for any peer.
C23_UnroutableIsHostUnreachable ==
    [][(last'.op \in SendOps
          /\ sock[last'.sock].role = "Server"
          /\ last'.msg.routing_id \notin sock[last'.sock].peers
          /\ sock[last'.sock].ctx \notin terminated) =>
          \/ /\ last'.res.kind.tag = "HostUnreachable"
             /\ last'.res.content = Some(last'.msg)
             /\ sock' = sock
             /\ \A t \in Threads : pending'[t] = None
          \/ ~SendCall]_vars

\* a message without routing id is refused while a client is connected
C23_Witness ==
    /\ last.op = "send"
    /\ last.res.kind.tag = "HostUnreachable"
    /\ last.res.content = Some(last.msg)
    /\ last.msg.routing_id = Nil
    /\ sock[last.sock].role = "Server"
    /\ sock[last.sock].peers # {}
    /\ sock[last.sock].outq = <<>>

----------------------------------------------------------------------------
(* A Radio and its no-drop flag.  The Radio is bound, the engine tells it  *)
(* the groups its subscriber has joined, and the messages queued for the   *)
(* subscriber are the Radio's outbound queue: the subscriber is in mute    *)
(* state when that queue is at the high water mark.                        *)

\* the messages a Radio sends: a payload and a group
GroupMsgs == [data : Payloads, routing_id : {Nil}, group : Groups]

\* radio.set_no_drop(enabled), between two calls of the thread
RadioSetNoDrop(t, enabled) == Idle(t) /\ SetNoDrop(enabled)

\* the engine learns that the subscriber has joined a group
Subscribe(g) ==
    /\ Running /\ Open(TheSock) /\ sock[TheSock].ctx \notin terminated
    /\ sock[TheSock].role = "Radio"
    /\ sock[TheSock].bound # {}
    /\ g \notin sock[TheSock].groups
    /\ sock' = [sock EXCEPT ![TheSock].groups = @ \cup {g}]
    /\ UNCHANGED <<terminated, pending, cfgVars, last, calls>>

NextRadio ==
    \/ \E t \in Threads, c \in Ctxs : New(t, TheSock, "Radio", c)
    \/ \E t \in Threads : Close(t, TheSock)
    \/ \E c \in Ctxs : Terminate(c)
    \/ \E t \in Threads, e \in Endpoints : Bind(t, TheSock, e)
    \/ \E t \in Threads, enabled \in BOOLEAN : RadioSetNoDrop(t, enabled)
    \/ \E g \in Groups : Subscribe(g)
    \/ \E t \in Threads, m \in GroupMsgs, sig \in BOOLEAN :
         Send(t, TheSock, m, sig)
    \/ \E t \in Threads, sig \in BOOLEAN : SendWake(t, sig)
    \/ \E t \in Threads, m \in GroupMsgs : SendPoll(t, TheSock, m)
    \/ Transmit(TheSock)

SpecRadio == Init /\ [][NextRadio]_vars

\* a send or send_poll of the Radio is called, or its blocked send returns
RadioSendCall ==
    \E t \in Threads :
       \/ \E m \in GroupMsgs, sig \in BOOLEAN : Send(t, TheSock, m, sig)
       \/ \E m \in GroupMsgs : SendPoll(t, TheSock, m)
       \/ \E sig \in BOOLEAN : SendWake(t, sig)

\* the subscriber of the message's group is in mute state
SubscriberMute(S, msg) ==
    /\ S.role = "Radio" /\ S.ctx \notin terminated
    /\ msg.group \in S.groups
    /\ Mute(S)

\* C24: set_no_drop(b) sets the flag to b.  With no-drop set, a send that
\* meets the subscriber in mute state blocks (or is interrupted) and a
\* send_poll returns WouldBlock; the message stays with the caller, nothing is
\* dropped, and a send that returns Ok has queued the message for the
\* subscriber.  With no-drop unset (the default) the same send returns Ok
\* without blocking and the message is dropped: nothing is queued.
C24_NoDropBlocksInsteadOfDropping ==
    [][/\ (last'.op = "set_no_drop" /\ IsOk(last'.res)) =>
             \/ sock'[TheSock].opt.no_drop = Unwrap(last'.val)
             \/ ~(\E t \in Threads, b \in BOOLEAN : RadioSetNoDrop(t, b))
       /\ (last'.op \in SendOps
             /\ SubscriberMute(sock[TheSock], last'.msg)) =>
             \/ /\ sock[TheSock].opt.no_drop = 1
                /\ sock' = sock
                /\ \/ /\ last'.op = "send_poll"
                      /\ last'.res.kind.tag = "WouldBlock"
                      /\ last'.res.content = Some(last'.msg)
                   \/ /\ last'.op = "send"
                      /\ last'.res.kind.tag = "Interrupted"
                      /\ last'.res.content = Some(last'.msg)
                   \/ /\ last'.op = "send"
                      /\ last'.res = Blocked
                      /\ \E t \in Threads :
                           pending'[t] =
                             Some([op |-> "send", sock |-> TheSock,
                                   msg |-> last'.msg])
             \/ /\ sock[TheSock].opt.no_drop = 0
                /\ IsOk(last'.res)
                /\ sock' = sock
                /\ \A t \in Threads : pending'[t] = None
             \/ ~RadioSendCall
       /\ (last'.op \in SendOps /\ IsOk(last'.res)
             /\ sock[TheSock].role = "Radio"
             /\ sock[TheSock].opt.no_drop = 1
             /\ last'.msg.group \in sock[TheSock].groups) =>
             \/ sock' = [sock EXCEPT ![TheSock].outq = Append(@, last'.msg)]
             \/ ~RadioSendCall]_vars

C24_Witness ==
    /\ last.op = "send" /\ last.res = Blocked
    /\ sock[TheSock].role = "Radio"
    /\ sock[TheSock].opt.no_drop = 1
    /\ last.msg.group \in sock[TheSock].groups
    /\ Len(sock[TheSock].outq) = MaxQueue
    /\ \E t \in Threads : IsSome(pending[t])

----------------------------------------------------------------------------
(* disconnect and unbind.                                                  *)

\* a disconnect or an unbind is called
DetachStep ==
    \E t \in Threads, s \in Socks, e \in Endpoints :
       Disconnect(t, s, e) \/ Unbind(t, s, e)

\* C25: on a live context, disconnect(e) of an endpoint the socket is not
\* connected to and unbind(e) of an endpoint it is not bound to return
\* NotFound and leave the socket as it was; disconnect / unbind of an
\* endpoint that is connected / bound returns Ok and removes exactly that
\* endpoint from the connected / bound endpoints, the other set unchanged.
C25_NotFoundOrRemoved ==
    [][(last'.op \in {"disconnect", "unbind"}
          /\ sock[last'.sock].ctx \notin terminated) =>
          \/ /\ last'.op = "disconnect"
             /\ last'.arg \notin sock[last'.sock].connected
             /\ last'.res =
                  Error_new(KindMsg("NotFound", "endpoint was not connected to"))
             /\ sock' = sock
          \/ /\ last'.op = "unbind"
             /\ last'.arg \notin sock[last'.sock].bound
             /\ last'.res =
                  Error_new(KindMsg("NotFound", "endpoint was not bound to"))
             /\ sock' = sock
          \/ /\ last'.op = "disconnect"
             /\ last'.arg \in sock[last'.sock].connected
             /\ IsOk(last'.res)
             /\ sock'[last'.sock].connected =
                  sock[last'.sock].connected \ {last'.arg}
             /\ sock'[last'.sock].bound = sock[last'.sock].bound
          \/ /\ last'.op = "unbind"
             /\ last'.arg \in sock[last'.sock].bound
             /\ IsOk(last'.res)
             /\ sock'[last'.sock].bound = sock[last'.sock].bound \ {last'.arg}
             /\ sock'[last'.sock].connected = sock[last'.sock].connected
          \/ ~DetachStep]_vars

\* unbind of an endpoint the socket is only connected to
C25_Witness ==
    /\ last.op = "unbind" /\ last.arg = "e1"
    /\ last.res.kind.tag = "NotFound"
    /\ sock[last.sock].connected = {"e1"}
    /\ sock[last.sock].bound = {"e2"}

----------------------------------------------------------------------------
(* The translation of the engine's answers.  Every wrapper looks at the    *)
(* return code and, on -1, matches on zmq_errno().  cfg is the answer of   *)
(* the engine to one call: the operation, the return code, the error code. *)

\* the error codes the matches name, and one they do not
Errnos ==
    {"EAGAIN", "ENOTSUP", "EINVAL", "EFSM", "ETERM", "ENOTSOCK", "EINTR",
     "EFAULT", "EHOSTUNREACH", "EPROTONOSUPPORT", "ENOCOMPATPROTO",
     "EADDRINUSE", "EADDRNOTAVAIL", "ENODEV", "EMTHREAD", "ENOENT", "EMFILE",
     "ENOMEM"}

NativeOps ==
    {"new", "connect", "bind", "disconnect", "unbind", "send", "recv",
     "join", "leave", "drop"}

\* the engine's return codes: success, or -1 with an error code
ReturnCodes == {"0", "-1"}

InitErrno ==
    /\ sock = [s \in Socks |-> NoSocket]
    /\ terminated = {}
    /\ pending = [t \in Threads |-> None]
    /\ \E op \in NativeOps, rc \in ReturnCodes, errno \in Errnos,
          p \in Payloads :
         cfg = [op |-> op, rc |-> rc, errno |-> errno, msg |-> Msg_from(p)]
    /\ phase = "answer"
    /\ last = Step("init", Nil, Nil, Ok)
    /\ calls = <<>>

\* the wrapper of operation op returns res for the engine's answer
Translate(op, res) ==
    /\ phase = "answer" /\ cfg.op = op
    /\ phase' = "returned"
    /\ last' = StepMsg(op, Nil, cfg.msg, res)
    /\ UNCHANGED <<sock, terminated, pending, cfg, calls>>

\* if socket.is_null() { match errno .. } else { Ok(..) }
TranslateNew ==
    Translate("new", IF cfg.rc = "-1" THEN with_ctx_errno(cfg.errno) ELSE Ok)

\* if rc == -1 { match errno .. } else { Ok(()) }, in each of the wrappers
TranslateConnect ==
    Translate("connect",
              IF cfg.rc = "-1" THEN connect_errno(cfg.errno) ELSE Ok)

TranslateBind ==
    Translate("bind", IF cfg.rc = "-1" THEN bind_errno(cfg.errno) ELSE Ok)

TranslateDisconnect ==
    Translate("disconnect",
              IF cfg.rc = "-1" THEN disconnect_errno(cfg.errno) ELSE Ok)

TranslateUnbind ==
    Translate("unbind", IF cfg.rc = "-1" THEN unbind_errno(cfg.errno) ELSE Ok)

TranslateSend ==
    Translate("send",
              IF cfg.rc = "-1" THEN send_errno(cfg.errno, cfg.msg) ELSE Ok)

TranslateRecv ==
    Translate("recv", IF cfg.rc = "-1" THEN recv_errno(cfg.errno) ELSE Ok)

TranslateJoin ==
    Translate("join", IF cfg.rc = "-1" THEN join_errno(cfg.errno) ELSE Ok)

TranslateLeave ==
    Translate("leave", IF cfg.rc = "-1" THEN leave_errno(cfg.errno) ELSE Ok)

\* if rc == -1 { match errno .. }, in Drop for RawSocket
TranslateDrop ==
    Translate("drop", IF cfg.rc = "-1" THEN drop_errno(cfg.errno) ELSE Ok)

NextErrno ==
    \/ TranslateNew
    \/ TranslateConnect
    \/ TranslateBind
    \/ TranslateDisconnect
    \/ TranslateUnbind
    \/ TranslateSend
    \/ TranslateRecv
    \/ TranslateJoin
    \/ TranslateLeave
    \/ TranslateDrop

SpecErrno == InitErrno /\ [][NextErrno]_vars

\* the engine's call failed and the wrapper has returned
FailureTranslated == phase = "returned" /\ cfg.rc = "-1"

\* C26: AddrInUse and AddrNotAvailable are outcomes of bind only: no other
\* operation returns either for any error code, and bind returns AddrInUse
\* exactly for EADDRINUSE and AddrNotAvailable exactly for EADDRNOTAVAIL and
\* ENODEV.
C26_AddrErrorsBindOnly ==
    FailureTranslated =>
      /\ last.op # "bind" =>
           last.res.kind.tag \notin {"AddrInUse", "AddrNotAvailable"}
      /\ last.op = "bind" =>
           /\ last.res.kind.tag = "AddrInUse" <=> cfg.errno = "EADDRINUSE"
           /\ last.res.kind.tag = "AddrNotAvailable"
                <=> cfg.errno \in {"EADDRNOTAVAIL", "ENODEV"}

C26_Witness ==
    /\ FailureTranslated
    /\ last.op = "bind" /\ cfg.errno = "ENODEV"
    /\ last.res = Error_new(Kind("AddrNotAvailable"))

\* the error codes the match of an operation turns into an error value
Recoverable(op) ==
    CASE op = "new" -> {"EMFILE", "ETERM"}
      [] op = "connect" ->
           {"EINVAL", "EPROTONOSUPPORT", "ENOCOMPATPROTO", "ETERM"}
      [] op = "bind" ->
           {"EINVAL", "EPROTONOSUPPORT", "ENOCOMPATPROTO", "EADDRINUSE",
            "EADDRNOTAVAIL", "ENODEV", "ETERM"}
      [] op = "disconnect" -> {"EINVAL", "ETERM", "ENOENT"}
      [] op = "unbind" -> {"EINVAL", "ETERM", "ENOENT"}
      [] op = "send" -> {"EAGAIN", "ETERM", "EINTR", "EHOSTUNREACH"}
      [] op = "recv" -> {"EAGAIN", "ETERM", "EINTR"}
      [] op = "join" -> {"EINVAL", "ETERM", "EINTR"}
      [] op = "leave" -> {"EINVAL", "ETERM", "EINTR"}
      [] op = "drop" -> {}

\* C27: every native failure is translated to one of the nine recoverable
\* error kinds or is fatal: when the engine reports failure the call never
\* returns Ok; an error code in the operation's table gives an error of one of
\* the nine kinds, and an error code outside it always ends in the fatal path.
C27_FailureIsErrorOrFatal ==
    FailureTranslated =>
      /\ ~IsOk(last.res)
      /\ cfg.errno \in Recoverable(last.op) =>
           IsErr(last.res) /\ Cardinality(ErrorKinds) = 9
      /\ cfg.errno \notin Recoverable(last.op) => IsPanic(last.res)

C27_Witness ==
    /\ FailureTranslated
    /\ last.op = "new" /\ cfg.errno = "ENOMEM"
    /\ IsPanic(last.res)

----------------------------------------------------------------------------
(* Ownership.  A Client of socket/client.rs is an Arc<RawSocket>: clone    *)
(* adds an owner, drop removes one, and the drop of the last owner drops   *)
(* the RawSocket: Drop::drop closes the native socket, then the fields are *)
(* dropped, the Ctx among them.  A Ctx is a counted reference to the       *)
(* native context, released when the last reference is dropped.  cfg holds *)
(* the owners of each socket, the Ctx handles the program holds, whether   *)
(* the native context was released, and the number of native sockets       *)
(* opened and closed in each slot.                                         *)

OwnSocks == {"a", "b"}
TheCtx == CHOOSE c \in Ctxs : TRUE

\* the most owners of one socket, Ctx handles of the program, and sockets
\* opened one after the other in one slot
MaxOwners == 2
MaxHandles == 2
MaxOpens == 2

\* a variant of RawSocket that holds no reference to its context
RawSocket_ctx_refs_none(owners) == 0

\* struct RawSocket { ctx: Ctx, socket }: every live RawSocket holds one
\* reference to the context
RawSocket_ctx_refs(owners) == Cardinality({s \in OwnSocks : owners[s] > 0})

\* the native context is released when no reference to it is left
Released(handles, owners) == handles + RawSocket_ctx_refs(owners) = 0

\* the engine around a socket: calls on a released context fail
EnvOwn(s, full) ==
    [term |-> cfg.released, sig |-> FALSE,
     inuse |-> UNION {sock[x].bound : x \in OwnSocks \ {s}}, full |-> full]

\* the engine calls of an operation, and the release of the native context
\* if the operation dropped the last reference
CallsThenRelease(cs, handles, owners) ==
    cs \o (IF ~cfg.released /\ Released(handles, owners)
           THEN <<Call("zmq_ctx_term", Nil, 0)>> ELSE <<>>)

CountCalls(cs, fn) == Len(SelectSeq(cs, LAMBDA c : c.fn = fn))

InitOwn ==
    /\ sock = [s \in OwnSocks |-> NoSocket]
    /\ terminated = {}
    /\ pending = [t \in Threads |-> None]
    /\ cfg = [owners |-> [s \in OwnSocks |-> 0], handles |-> 1,
              released |-> FALSE,
              opens |-> [s \in OwnSocks |-> 0],
              closes |-> [s \in OwnSocks |-> 0]]
    /\ phase = "live"
    /\ last = Step("init", Nil, Nil, Ok)
    /\ calls = <<>>

\* ctx.clone()
CtxClone ==
    /\ Running /\ cfg.handles > 0 /\ cfg.handles < MaxHandles
    /\ cfg' = [cfg EXCEPT !.handles = @ + 1]
    /\ last' = Step("ctx_clone", Nil, TheCtx, Ok)
    /\ calls' = <<>>
    /\ UNCHANGED <<sock, terminated, pending, phase>>

\* drop(ctx)
CtxDrop ==
    /\ Running /\ cfg.handles > 0
    /\ cfg' = [cfg EXCEPT !.handles = @ - 1,
                          !.released = @ \/ Released(cfg.handles - 1,
                                                     cfg.owners)]
    /\ last' = Step("ctx_drop", Nil, TheCtx, Ok)
    /\ calls' = CallsThenRelease(<<>>, cfg.handles - 1, cfg.owners)
    /\ UNCHANGED <<sock, terminated, pending, phase>>

\* Client::with_ctx(ctx): the Ctx moves into the call; Ok(Self { ctx, socket })
\* keeps it, an error drops it
OwnNew(s, full) ==
    /\ Running /\ cfg.handles > 0
    /\ cfg.owners[s] = 0 /\ cfg.opens[s] < MaxOpens
    /\ \E r \in {with_ctx(EnvOwn(s, full), "Client", TheCtx)} :
         \E owners \in {[cfg.owners EXCEPT
                           ![s] = IF IsOk(r.res) THEN 1 ELSE 0]} :
           /\ sock' = [sock EXCEPT ![s] = r.S]
           /\ cfg' = [cfg EXCEPT
                  !.handles = @ - 1,
                  !.owners = owners,
                  !.opens[s] = @ + (IF IsOk(r.res) THEN 1 ELSE 0),
                  !.closes[s] = @ + CountCalls(r.calls, "zmq_close"),
                  !.released = @ \/ Released(cfg.handles - 1, owners)]
           /\ last' = Step("new", s, "Client", r.res)
           /\ calls' = CallsThenRelease(r.calls, cfg.handles - 1, owners)
    /\ UNCHANGED <<terminated, pending, phase>>

\* client.clone(): one more owner of the same RawSocket
OwnClone(s) ==
    /\ Running /\ cfg.owners[s] > 0 /\ cfg.owners[s] < MaxOwners
    /\ cfg' = [cfg EXCEPT !.owners[s] = @ + 1]
    /\ last' = Step("clone", s, Nil, Ok)
    /\ calls' = <<>>
    /\ UNCHANGED <<sock, terminated, pending, phase>>

\* drop(client): the last owner drops the RawSocket, which closes the
\* native socket and then drops its Ctx
OwnDrop(s) ==
    /\ Running /\ cfg.owners[s] > 0
    /\ IF cfg.owners[s] > 1
       THEN /\ cfg' = [cfg EXCEPT !.owners[s] = @ - 1]
            /\ last' = Step("drop", s, Nil, Ok)
            /\ calls' = <<>>
            /\ UNCHANGED sock
       ELSE \E r \in {drop(sock[s])} :
            \E owners \in {[cfg.owners EXCEPT ![s] = 0]} :
              /\ sock' = [sock EXCEPT ![s] = r.S]
              /\ cfg' = [cfg EXCEPT
                     !.owners = owners,
                     !.closes[s] = @ + CountCalls(r.calls, "zmq_close"),
                     !.released = @ \/ Released(cfg.handles, owners)]
              /\ last' = Step("drop", s, Nil, r.res)
              /\ calls' = CallsThenRelease(r.calls, cfg.handles, owners)
    /\ UNCHANGED <<terminated, pending, phase>>

\* a call through one of the owners: client.connect(e)
OwnConnect(s, e) ==
    /\ Running /\ cfg.owners[s] > 0
    /\ Return("connect", s, e, connect(sock[s], EnvOwn(s, FALSE), e))
    /\ UNCHANGED <<terminated, pending, cfgVars>>

NextOwn ==
    \/ CtxClone
    \/ CtxDrop
    \/ \E s \in OwnSocks, full \in BOOLEAN : OwnNew(s, full)
    \/ \E s \in OwnSocks : OwnClone(s)
    \/ \E s \in OwnSocks : OwnDrop(s)
    \/ \E s \in OwnSocks, e \in Endpoints : OwnConnect(s, e)

SpecOwn == InitOwn /\ [][NextOwn]_vars

\* C28: each opened native socket is closed exactly once, when its last
\* owner is dropped.  A slot has an owner exactly when its native socket is
\* open (so a socket is never used after its close and never left open
\* without owner); the sockets closed are the sockets opened, less the one
\* still owned; zmq_close is called in a step exactly when that step drops
\* the last owner of an open socket, and then once; a failed open calls no
\* close.
C28_ClosedExactlyOnce ==
    /\ [](\A s \in OwnSocks :
            /\ cfg.owners[s] > 0 <=> sock[s].state = "open"
            /\ cfg.closes[s] =
                 cfg.opens[s] - (IF cfg.owners[s] > 0 THEN 1 ELSE 0))
    /\ [][/\ CountCalls(calls', "zmq_close") =
               (IF \E s \in OwnSocks :
                     /\ cfg.owners[s] = 1 /\ cfg'.owners[s] = 0
                     /\ sock[s].state = "open"
                THEN 1 ELSE 0)
          /\ (last'.op = "new" /\ ~IsOk(last'.res)) =>
                \A s \in OwnSocks : cfg'.closes[s] = cfg.closes[s]]_vars

\* a second socket was opened and closed in a slot, a shared one is still
\* owned twice
C28_Witness ==
    /\ cfg.opens["a"] = 2 /\ cfg.closes["a"] = 2
    /\ cfg.owners["a"] = 0 /\ sock["a"].state = "closed"
    /\ cfg.owners["b"] = 2 /\ sock["b"].state = "open"
    /\ last.op = "drop" /\ last.sock = "a"
    /\ calls = <<Call("zmq_close", Nil, 0)>>

\* a call is made through an owner of a socket
OwnCall == \E s \in OwnSocks, e \in Endpoints : OwnConnect(s, e)

\* the last owner of a socket is dropped in this step
Closes(s) == cfg.owners[s] = 1 /\ cfg'.owners[s] = 0

\* C29: the native context is never released while one of its sockets is
\* open: it is released exactly when neither the program nor a socket holds
\* a reference; in the step that drops a socket the close of the socket
\* comes before the release of the context; closing a socket while other
\* references exist leaves the context unreleased and the other sockets as
\* they were, and a call on a socket always finds the context usable.
C29_CtxOutlivesSockets ==
    /\ [](/\ (\E s \in OwnSocks : sock[s].state = "open") => ~cfg.released
          /\ cfg.released <=>
               (cfg.handles = 0 /\ \A s \in OwnSocks : cfg.owners[s] = 0))
    /\ [][/\ CountCalls(calls', "zmq_ctx_term") =
               (IF ~cfg.released /\ cfg'.released THEN 1 ELSE 0)
          /\ cfg'.released /\ ~cfg.released =>
               /\ calls'[Len(calls')] = Call("zmq_ctx_term", Nil, 0)
               /\ \A s \in OwnSocks : sock'[s].state # "open"
          /\ \A s \in OwnSocks :
               (Closes(s) /\ ~cfg'.released) =>
                  \A x \in OwnSocks \ {s} : sock'[x] = sock[x]
          /\ (last'.op = "connect") => (IsOk(last'.res) \/ ~OwnCall)]_vars

\* the program has dropped its handles and closed one socket; the other
\* socket still connects
C29_Witness ==
    /\ cfg.handles = 0 /\ ~cfg.released
    /\ sock["a"].state = "closed" /\ cfg.owners["a"] = 0
    /\ sock["b"].state = "open"
    /\ last.op = "connect" /\ last.sock = "b" /\ IsOk(last.res)
    /\ sock["b"].connected = {"e1"}

----------------------------------------------------------------------------
(* One Client shared by two threads that call recv.  The engine answers    *)
(* the calls made on one socket one at a time.  cfg holds the messages the *)
(* peer sends, those not yet arrived, and what each thread has received.   *)

ShareThreads == {"t1", "t2"}

\* number of messages the peer sends to the shared Client
MaxInbound == 2

\* the messages the peer sends to the Client, in order
Inbound == [1..MaxInbound -> Payloads]

\* let client = Client::new()?; client.connect(&endpoint)?; the Client is
\* then shared by reference between the threads
InitShare ==
    /\ \E c \in Ctxs :
         sock = [s \in Socks |->
                   connect(FreshSocket("Client", c), EnvFresh, "e1").S]
    /\ terminated = {}
    /\ pending = [t \in ShareThreads |-> None]
    /\ \E inbound \in Inbound :
         cfg = [inbound |-> inbound, remaining |-> inbound,
                got |-> [t \in ShareThreads |-> <<>>]]
    /\ phase = "live"
    /\ last = Step("init", Nil, Nil, Ok)
    /\ calls = <<>>

\* what thread t has after its recv returned r
Received(t, r) ==
    IF IsOk(r.res)
    THEN [cfg EXCEPT !.got[t] = Append(@, r.msg.data)]
    ELSE cfg

\* thread t calls client.recv_msg()
ShareRecv(t, sig) ==
    /\ Idle(t)
    /\ \E r \in {recv(sock[TheSock], Env(TheSock, sig), Msg_new, FALSE)} :
         IF r.blocks
         THEN /\ pending' = [pending EXCEPT ![t] =
                    Some([op |-> "recv", sock |-> TheSock, msg |-> Msg_new])]
              /\ last' = StepMsg("recv", TheSock, Msg_new, Blocked)
              /\ calls' = r.calls
              /\ UNCHANGED <<sock, cfg>>
         ELSE /\ ReturnMsg("recv", TheSock, r.msg, r)
              /\ cfg' = Received(t, r)
              /\ UNCHANGED pending
    /\ UNCHANGED <<terminated, phase>>

\* the blocked recv of thread t returns
ShareWake(t, sig) ==
    /\ Running /\ IsSome(pending[t])
    /\ \E r \in {recv(sock[TheSock], Env(TheSock, sig),
                      Unwrap(pending[t]).msg, FALSE)} :
         /\ ~r.blocks
         /\ ReturnMsg("recv", TheSock, r.msg, r)
         /\ cfg' = Received(t, r)
         /\ pending' = [pending EXCEPT ![t] = None]
    /\ UNCHANGED <<terminated, phase>>

\* the engine puts the next message of the peer in the inbound queue
Arrive ==
    /\ Running
    /\ cfg.remaining # <<>>
    /\ Len(sock[TheSock].inq) < MaxQueue
    /\ sock' = [sock EXCEPT ![TheSock].inq =
                  Append(@, Msg_from(Head(cfg.remaining)))]
    /\ cfg' = [cfg EXCEPT !.remaining = Tail(@)]
    /\ UNCHANGED <<terminated, pending, phase, last, calls>>

NextShare ==
    \/ \E t \in ShareThreads, sig \in BOOLEAN : ShareRecv(t, sig)
    \/ \E t \in ShareThreads, sig \in BOOLEAN : ShareWake(t, sig)
    \/ Arrive

SpecShare == InitShare /\ [][NextShare]_vars

\* the threads and the engine go on while they can, and the engine delivers
\* what the peer has sent
LiveShare == SpecShare /\ WF_vars(NextShare) /\ WF_vars(Arrive)

\* how often payload p occurs in sequence q
Occurs(p, q) == Cardinality({i \in 1..Len(q) : q[i] = p})

\* the payloads queued in the socket
Queued == [i \in 1..Len(sock[TheSock].inq) |-> sock[TheSock].inq[i].data]

=============================================================================
